---- MODULE Spec2Model ----
(***************************************************************************)
(* Verification model of the logging-call rewriters of the repository:     *)
(*   scripts/fix_all_logging_phase2.py  (ComprehensiveLoggingFixer)        *)
(*   scripts/fix_logerror_phase2.py     (LoggingParameterFixer)            *)
(* Text is a sequence of one-character strings, so that the regular        *)
(* expressions, the argument splitters and str.replace are modelled        *)
(* character by character, as the code runs them.                          *)
(***************************************************************************)
EXTENDS Integers, Sequences, FiniteSets, TLC

(***************************************************************************)
(* Characters and small text helpers (Python str semantics).               *)
(***************************************************************************)
DQ == "\""
BS == "\\"

\* str.strip() / regex \s: the ASCII whitespace characters.
IsSpace(c) == c \in {" ", "\t", "\n", "\r", "\f"}

\* s[a:b] of Python with 1-based inclusive bounds; empty when a > b.
Slice(s, a, b) == IF a > b THEN <<>> ELSE SubSeq(s, a, b)

\* The first position >= i that holds no white space (Len(s)+1: none).
LStripFrom(s, i) ==
  CHOOSE k \in i..(Len(s) + 1) :
    /\ k = Len(s) + 1 \/ ~IsSpace(s[k])
    /\ \A j \in i..(k - 1) : IsSpace(s[j])

\* The last position <= j that holds no white space (0: none).
RStripFrom(s, j) ==
  CHOOSE k \in 0..j :
    /\ k = 0 \/ ~IsSpace(s[k])
    /\ \A h \in (k + 1)..j : IsSpace(s[h])

\* str.strip()
Strip(s) == Slice(s, LStripFrom(s, 1), RStripFrom(s, Len(s)))

LStripCommaFrom(s, i) ==
  CHOOSE k \in i..(Len(s) + 1) :
    /\ k = Len(s) + 1 \/ s[k] # ","
    /\ \A j \in i..(k - 1) : s[j] = ","

\* str.lstrip(',')
LStripComma(s) == Slice(s, LStripCommaFrom(s, 1), Len(s))

\* s.startswith(lit, i-1): lit occurs in s at 1-based position i.
StartsWithAt(s, i, lit) ==
  /\ i >= 1
  /\ i + Len(lit) - 1 <= Len(s)
  /\ \A k \in 1..Len(lit) : s[i + k - 1] = lit[k]

\* First position >= i whose character is in cs; Len(s)+1 when there is none.
FirstOf(s, i, cs) ==
  IF i > Len(s) THEN Len(s) + 1
  ELSE CHOOSE k \in i..(Len(s) + 1) :
         /\ k = Len(s) + 1 \/ s[k] \in cs
         /\ \A j \in i..(k - 1) : s[j] \notin cs

\* str.replace(old, new): every non-overlapping occurrence, left to right.
\* The first position >= i where lit occurs (Len(s)+1: none).
FindAt(s, i, lit) ==
  IF i > Len(s) THEN Len(s) + 1
  ELSE CHOOSE k \in i..(Len(s) + 1) :
         /\ k = Len(s) + 1 \/ StartsWithAt(s, k, lit)
         /\ \A j \in i..(k - 1) : ~StartsWithAt(s, j, lit)

RECURSIVE ReplaceFrom(_, _, _, _)
ReplaceFrom(s, i, old, new) ==
  LET k == FindAt(s, i, old)
  IN IF k > Len(s) THEN Slice(s, i, Len(s))
     ELSE Slice(s, i, k - 1) \o new \o ReplaceFrom(s, k + Len(old), old, new)

Replace(s, old, new) == ReplaceFrom(s, 1, old, new)

\* ", ".join(xs)
RECURSIVE JoinCommaSpace(_)
JoinCommaSpace(xs) ==
  IF Len(xs) = 0 THEN <<>>
  ELSE IF Len(xs) = 1 THEN xs[1]
  ELSE xs[1] \o <<",", " ">> \o JoinCommaSpace(Tail(xs))

\* re.findall(r'\{([^}]+)\}', t): '{', one or more non-'}' characters, '}'.
RECURSIVE FindPlaceholdersFrom(_, _)
FindPlaceholdersFrom(t, i) ==
  LET b == FirstOf(t, i, {"{"})
      r == FirstOf(t, b + 1, {"}"})
  IN IF b > Len(t) THEN <<>>
     ELSE IF r <= Len(t) /\ r > b + 1
          THEN <<Slice(t, b + 1, r - 1)>> \o FindPlaceholdersFrom(t, r + 1)
          ELSE FindPlaceholdersFrom(t, b + 1)

FindPlaceholders(t) == FindPlaceholdersFrom(t, 1)

(***************************************************************************)
(* The method names and the two receiver prefixes both fixers look for.    *)
(***************************************************************************)
LoggerDot == <<"_","l","o","g","g","e","r",".">>
OrchestratorDot ==
  <<"T","r","a","d","i","n","g","L","o","g","O","r","c","h","e","s","t","r",
    "a","t","o","r",".","I","n","s","t","a","n","c","e",".">>

LogError   == <<"L","o","g","E","r","r","o","r">>
LogInfo    == <<"L","o","g","I","n","f","o">>
LogWarning == <<"L","o","g","W","a","r","n","i","n","g">>
LogDebug   == <<"L","o","g","D","e","b","u","g">>
LogTrace   == <<"L","o","g","T","r","a","c","e">>

logging_methods == <<LogError, LogInfo, LogWarning, LogDebug, LogTrace>>

\* Group 1 of both patterns:
\*   (?:TradingLogOrchestrator\.Instance\.|_logger\.)METHOD\(
\* The position just after the '(' when it matches at i, else 0.
PrefixEnd(s, i, method) ==
  IF StartsWithAt(s, i, OrchestratorDot \o method \o <<"(">>)
  THEN i + Len(OrchestratorDot) + Len(method) + 1
  ELSE IF StartsWithAt(s, i, LoggerDot \o method \o <<"(">>)
  THEN i + Len(LoggerDot) + Len(method) + 1
  ELSE 0

(***************************************************************************)
(* ComprehensiveLoggingFixer.fix_logging_call: the pattern                 *)
(*   (PREFIX)("(?:[^"\\]|\\.)*\{[^}]+\}(?:[^"\\]|\\.)*")                   *)
(*   ((?:\s*,\s*[^,)]+)+)(\s*\))                                           *)
(* matched as Python's backtracking matcher does: greedy, leftmost.        *)
(***************************************************************************)

\* (?:[^"\\]|\\.)* from p, greedy.  A unit is one character other than '"'
\* and '\', or a '\' with the character after it.  UnitStep reads the
\* character at i; st.mode is "unit" (a unit may start here), "escaped" (this
\* character belongs to the '\' before it) or "stopped"; st.stops collects the
\* positions the matcher can stop at: every unit start, then the end.
UnitStep(s, st, i) ==
  IF st.mode = "stopped" THEN st
  ELSE IF st.mode = "escaped" THEN [st EXCEPT !.mode = "unit"]
  ELSE IF s[i] = DQ \/ (s[i] = BS /\ i = Len(s))
  THEN [mode |-> "stopped", stops |-> Append(st.stops, i)]
  ELSE IF s[i] = BS
  THEN [mode |-> "escaped", stops |-> Append(st.stops, i)]
  ELSE [mode |-> "unit", stops |-> Append(st.stops, i)]

\* The steps for the positions a..b in increasing order (the range is halved
\* only to keep the evaluation shallow; after "stopped" no step changes st).
RECURSIVE UnitRun(_, _, _, _)
RECURSIVE UnitRest(_, _, _, _)
UnitRun(s, st, a, b) ==
  IF a > b THEN st
  ELSE IF a = b THEN UnitStep(s, st, a)
  ELSE UnitRest(s, UnitRun(s, st, a, (a + b) \div 2), (a + b) \div 2 + 1, b)

UnitRest(s, left, a, b) ==
  IF left.mode = "stopped" THEN left ELSE UnitRun(s, left, a, b)

\* The stops of a finished run: the end of the text is one when it was reached.
UnitStopsEnd(st, end) ==
  IF st.mode = "stopped" THEN st.stops ELSE Append(st.stops, end)

UnitStops(s, p) ==
  UnitStopsEnd(UnitRun(s, [mode |-> "unit", stops |-> <<>>], p, Len(s)),
               Len(s) + 1)

\* The closing '"' at e, where the greedy second (?:...)* stopped: the position
\* after it, or 0 (giving units back cannot help: no unit holds a bare '"').
QuoteEnd(s, e) == IF e <= Len(s) /\ s[e] = DQ THEN e + 1 ELSE 0

\* [^}]+\}(?:[^"\\]|\\.)*" with the '{' at b and the first '}' after it at r.
TemplateEndFrom(s, b, r) ==
  IF r > Len(s) \/ r = b + 1 THEN 0
  ELSE QuoteEnd(s, UnitStops(s, r + 1)[Len(UnitStops(s, r + 1))])

\* \{[^}]+\}(?:[^"\\]|\\.)*" with the '{' at b: the position after the closing
\* quote, or 0 when this does not match.
TemplateEnd(s, b) == TemplateEndFrom(s, b, FirstOf(s, b + 1, {"}"}))

\* [^,)]+ is greedy and also takes white space, so every iteration of group 3
\* runs from a ',' (at c the first) up to the next ',' or ')', must hold at
\* least one character, and the \s* of group 4 is empty: the match ends at
\* close, the first ')' after c, and fails when a ',' is followed at once by
\* ',' or ')'.
ParamsClose(s, c, close) ==
  IF c > Len(s) \/ s[c] # "," \/ close > Len(s) THEN 0
  ELSE IF \E k \in c..(close - 1) : s[k] = "," /\ s[k + 1] \in {",", ")"}
  THEN 0
  ELSE close

\* ((?:\s*,\s*[^,)]+)+)(\s*\)) from q: the position of the ')' that ends the
\* match, or 0.
ParamsMatch(s, q) ==
  ParamsClose(s, LStripFrom(s, q), FirstOf(s, LStripFrom(s, q) + 1, {")"}))

NoMatch == [ok |-> FALSE, s |-> 0, g1e |-> 0, g2e |-> 0, g3e |-> 0, e |-> 0]

\* Groups 3 and 4 after a template that ends before te (0: no template).
ParamsAfter(s, te) == IF te = 0 THEN 0 ELSE ParamsMatch(s, te)

\* The rest of the pattern from a '{' at b, a stop of the first (?:...)*: the
\* position of the closing ')', or 0.
BraceMatch(s, b) ==
  IF b <= Len(s) /\ s[b] = "{" THEN ParamsAfter(s, TemplateEnd(s, b)) ELSE 0

\* The match with group 1 ending before p1, group 2 before te, group 3 at pe.
MatchGroups(i, p1, te, pe) ==
  [ok |-> TRUE, s |-> i, g1e |-> p1, g2e |-> te, g3e |-> pe, e |-> pe + 1]

\* The first (?:...)* is greedy: it gives back one unit at a time, so of the
\* stops from which the rest matches (good) the last one wins.
LastGood(s, i, p1, us, good) ==
  IF good = {} THEN NoMatch
  ELSE MatchGroups(i, p1,
         TemplateEnd(s, us[CHOOSE x \in good : \A y \in good : y <= x]),
         BraceMatch(s, us[CHOOSE x \in good : \A y \in good : y <= x]))

TryBraces(s, i, p1, us) ==
  LastGood(s, i, p1, us, {k \in 1..Len(us) : BraceMatch(s, us[k]) # 0})

\* The match with group 1 ending before p1 (0: group 1 does not match).
CMatchFrom(s, i, p1) ==
  IF p1 = 0 \/ p1 > Len(s) \/ s[p1] # DQ THEN NoMatch
  ELSE TryBraces(s, i, p1, UnitStops(s, p1 + 1))

\* The match of the pattern for `method` starting exactly at i.  Positions are
\* 1-based; g1e, g2e, g3e, e are the first positions after groups 1..4.
CMatchAt(s, i, method) ==
  IF i > Len(s) THEN NoMatch ELSE CMatchFrom(s, i, PrefixEnd(s, i, method))

\* The parameter split of replacer (lines 51-77).  SplitStep is one iteration
\* of `while i < len(param_str)` at the 1-based index i, on the loop's state
\* st = [current_param, paren_depth, in_quotes, param_list].
SplitStep(ps, st, i) ==
  LET char == ps[i] IN
  IF char = DQ /\ (i = 1 \/ ps[i - 1] # BS)
  THEN [st EXCEPT !.in_quotes = ~@, !.current_param = Append(@, char)]
  ELSE IF char = "(" /\ ~st.in_quotes
  THEN [st EXCEPT !.paren_depth = @ + 1, !.current_param = Append(@, char)]
  ELSE IF char = ")" /\ ~st.in_quotes
  THEN [st EXCEPT !.paren_depth = @ - 1, !.current_param = Append(@, char)]
  ELSE IF char = "," /\ st.paren_depth = 0 /\ ~st.in_quotes
  THEN [st EXCEPT !.param_list = IF Strip(st.current_param) # <<>>
                                 THEN Append(@, Strip(st.current_param))
                                 ELSE @,
                  !.current_param = <<>>]
  ELSE [st EXCEPT !.current_param = Append(@, char)]

\* The iterations for the indices a..b in increasing order, from state st.
\* The range is halved only to keep the evaluation shallow; the test on the
\* first half is always true and makes it be computed before the second.
RECURSIVE SplitRun(_, _, _, _)
RECURSIVE SplitRest(_, _, _, _)
SplitRun(ps, st, a, b) ==
  IF a > b THEN st
  ELSE IF a = b THEN SplitStep(ps, st, a)
  ELSE SplitRest(ps, SplitRun(ps, st, a, (a + b) \div 2), (a + b) \div 2 + 1, b)

SplitRest(ps, left, a, b) ==
  IF left.in_quotes \in BOOLEAN THEN SplitRun(ps, left, a, b) ELSE left

SplitInit == [current_param |-> <<>>, paren_depth |-> 0, in_quotes |-> FALSE,
              param_list |-> <<>>]

\* Lines 76-77: what is left in current_param after the loop is a parameter.
SplitEnd(st) ==
  IF Strip(st.current_param) # <<>>
  THEN Append(st.param_list, Strip(st.current_param))
  ELSE st.param_list

\* The whole scan, and lines 76-77 after it.
SplitScan(ps) == SplitEnd(SplitRun(ps, SplitInit, 1, Len(ps)))

\* params.strip().lstrip(',').strip()
ParamStr(params) == Strip(LStripComma(Strip(params)))

SplitParams(params) == SplitScan(ParamStr(params))

ExceptionNames == {<<"e","x">>, <<"e","x","c","e","p","t","i","o","n">>, <<"e">>}

\* Lines 79-84: the last parameter is popped when its text is ex, exception, e.
HasException(param_list) ==
  Len(param_list) > 0 /\ Strip(param_list[Len(param_list)]) \in ExceptionNames

\* Lines 87-91: one str.replace per placeholder, each on the result of the
\* one before, for the placeholders that have a parameter.
RECURSIVE BindFrom(_, _, _, _)
BindFrom(template_str, placeholders, param_list, i) ==
  IF i > Len(placeholders) THEN template_str
  ELSE IF i <= Len(param_list)
       THEN BindFrom(Replace(template_str,
                             <<"{">> \o placeholders[i] \o <<"}">>,
                             <<"{">> \o param_list[i] \o <<"}">>),
                     placeholders, param_list, i + 1)
       ELSE BindFrom(template_str, placeholders, param_list, i + 1)

\* Lines 79-84: the parameters that are bound.
ParamList(all_params) ==
  IF HasException(all_params)
  THEN SubSeq(all_params, 1, Len(all_params) - 1)
  ELSE all_params

\* Lines 79-107 of replacer, with the groups of the match, the placeholders and
\* the parameters: the replacement (result), with what was computed on the
\* way.  counted is the changes += 1 of line 99.
ReplacerBuild(s, m, prefix, template, params, suffix, placeholders, all_params) ==
  [matched |-> TRUE, s |-> m.s, e |-> m.e, prefix |-> prefix,
   template |-> template, params |-> params, suffix |-> suffix,
   placeholders |-> placeholders,
   all_params |-> all_params, has_exception |-> HasException(all_params),
   result |->
     IF placeholders = <<>> THEN Slice(s, m.s, m.e - 1)
     ELSE prefix \o <<"$", DQ>>
          \o BindFrom(Slice(template, 2, Len(template) - 1),
                      placeholders, ParamList(all_params), 1)
          \o <<DQ>>
          \o (IF HasException(all_params)
              THEN <<",", " ">> \o all_params[Len(all_params)]
              ELSE <<>>)
          \o suffix,
   counted |-> placeholders # <<>>]

\* Lines 43-77 of replacer: the placeholders and the parameters.
ReplacerSplit(s, m, prefix, template, params, suffix) ==
  ReplacerBuild(s, m, prefix, template, params, suffix,
                FindPlaceholders(template), SplitParams(params))

\* replacer(match): what one match is replaced by (lines 36-39: the groups).
Replacer(s, m) ==
  ReplacerSplit(s, m, Slice(s, m.s, m.g1e - 1), Slice(s, m.g1e, m.g2e - 1),
                Slice(s, m.g2e, m.g3e - 1), Slice(s, m.g3e, m.e - 1))

\* re.sub(pattern, replacer, content): the non-overlapping matches from left
\* to right, each with its replacement; the scan resumes after a match.
\* No match can start at a character other than 'T' and '_'; m is the match
\* starting at k, the first of these from i on.
RECURSIVE SubMatches(_, _, _)
RECURSIVE SubMatchesAt(_, _, _, _)
SubMatches(s, i, method) ==
  SubMatchesAt(s, FirstOf(s, i, {"T", "_"}), method,
               CMatchAt(s, FirstOf(s, i, {"T", "_"}), method))

SubMatchesAt(s, k, method, m) ==
  IF k > Len(s) THEN <<>>
  ELSE IF m.ok
       THEN <<Replacer(s, m)>> \o SubMatches(s, m.e, method)
       ELSE SubMatches(s, k + 1, method)

\* SubBuild with the text after the last match lost (a faulty variant of SubBuild).
RECURSIVE SubBuildDropsTail(_, _, _, _)
SubBuildDropsTail(s, i, ms, k) ==
  IF k > Len(ms) THEN IF Len(ms) = 0 THEN Slice(s, i, Len(s)) ELSE <<>>
  ELSE Slice(s, i, ms[k].s - 1) \o ms[k].result
       \o SubBuildDropsTail(s, ms[k].e, ms, k + 1)

\* re.sub: the text between the matches is copied, each match is replaced.
RECURSIVE SubBuild(_, _, _, _)
SubBuild(s, i, ms, k) ==
  IF k > Len(ms) THEN Slice(s, i, Len(s))
  ELSE Slice(s, i, ms[k].s - 1) \o ms[k].result \o SubBuild(s, ms[k].e, ms, k + 1)

(***************************************************************************)
(* LoggingParameterFixer (fix_logerror_phase2.py): the pattern             *)
(*   (PREFIX)"([^"]+)"(.*?)(\);?)                                          *)
(* searched in one line with re.search.                                    *)
(***************************************************************************)

\* The match starting exactly at i.  [^"]+ runs to the next '"' and must hold
\* a character; .*? is lazy and '.' matches no line feed, so group 3 ends at
\* the first ')' unless a line feed comes first; ;? takes a ';' that follows.
\* p1 is the end of group 1, q the closing '"', r the ')'.
LMatchClose(s, i, p1, q, r) ==
  IF r > Len(s) \/ s[r] # ")" THEN NoMatch
  ELSE [ok |-> TRUE, s |-> i, g1e |-> p1, g2e |-> q + 1, g3e |-> r,
        e |-> IF r + 1 <= Len(s) /\ s[r + 1] = ";" THEN r + 2 ELSE r + 1]

LMatchMessage(s, i, p1, q) ==
  IF q > Len(s) \/ q = p1 + 1 THEN NoMatch
  ELSE LMatchClose(s, i, p1, q, FirstOf(s, q + 1, {")", "\n"}))

LMatchFrom(s, i, p1) ==
  IF i > Len(s) \/ p1 = 0 \/ p1 > Len(s) \/ s[p1] # DQ THEN NoMatch
  ELSE LMatchMessage(s, i, p1, FirstOf(s, p1 + 1, {DQ}))

LMatchAt(s, i, method) == LMatchFrom(s, i, PrefixEnd(s, i, method))

\* The match at the first of the positions starts.
LSearchIn(s, method, starts) ==
  IF starts = {} THEN NoMatch
  ELSE LMatchAt(s, CHOOSE i \in starts : \A j \in starts : i <= j, method)

\* re.search: the match at the leftmost position that has one.
LSearch(s, method) ==
  LSearchIn(s, method,
    {i \in 1..Len(s) : s[i] \in {"T", "_"} /\ LMatchAt(s, i, method).ok})

\* One iteration of `for char in param_str` (lines 82-95) on the loop's state
\* st = [current_param, paren_depth, in_quotes, param_list] (params in the code).
LSplitStep(ps, st, i) ==
  LET char == ps[i]
      cp   == st.current_param
  IN
  IF char = DQ /\ (cp = <<>> \/ cp[Len(cp)] # BS)
  THEN [st EXCEPT !.in_quotes = ~@, !.current_param = Append(@, char)]
  ELSE IF char = "(" /\ ~st.in_quotes
  THEN [st EXCEPT !.paren_depth = @ + 1, !.current_param = Append(@, char)]
  ELSE IF char = ")" /\ ~st.in_quotes
  THEN [st EXCEPT !.paren_depth = @ - 1, !.current_param = Append(@, char)]
  ELSE IF char = "," /\ st.paren_depth = 0 /\ ~st.in_quotes
  THEN [st EXCEPT !.param_list = IF Strip(cp) # <<>>
                                 THEN Append(@, Strip(cp))
                                 ELSE @,
                  !.current_param = <<>>]
  ELSE [st EXCEPT !.current_param = Append(@, char)]

\* The iterations for the indices a..b in increasing order (halved as SplitRun).
RECURSIVE LSplitRun(_, _, _, _)
RECURSIVE LSplitRest(_, _, _, _)
LSplitRun(ps, st, a, b) ==
  IF a > b THEN st
  ELSE IF a = b THEN LSplitStep(ps, st, a)
  ELSE LSplitRest(ps, LSplitRun(ps, st, a, (a + b) \div 2),
                  (a + b) \div 2 + 1, b)

LSplitRest(ps, left, a, b) ==
  IF left.in_quotes \in BOOLEAN THEN LSplitRun(ps, left, a, b) ELSE left

\* Lines 71-72: one leading ',' is dropped and the rest stripped again.
LDropComma(param_str) ==
  IF param_str # <<>> /\ param_str[1] = ","
  THEN Strip(Slice(param_str, 2, Len(param_str)))
  ELSE param_str

\* Lines 70-72: strip, and drop one leading ',' and strip again.
LParamStr(params_section) == LDropComma(Strip(params_section))

\* Lines 75-98: the parameters in param_str.
LSplitScan(ps) ==
  IF ps = <<>> THEN <<>>
  ELSE SplitEnd(LSplitRun(ps, SplitInit, 1, Len(ps)))

\* Lines 69-98: the parameters of the call.
LSplitParams(params_section) == LSplitScan(LParamStr(params_section))

\* What fix_logging_call returns when it leaves the line as it is.
LUnchanged(line, m) ==
  [matched |-> m.ok, s |-> m.s, e |-> m.e, prefix |-> <<>>,
   template |-> <<>>, params |-> <<>>, suffix |-> <<>>,
   placeholders |-> <<>>, all_params |-> <<>>,
   has_exception |-> FALSE, result |-> line, counted |-> FALSE]

\* Lines 100-120: the line is rebuilt when there are placeholders and at
\* least as many parameters.
LFixBuild(line, m, prefix, message, params_section, suffix, placeholders, params) ==
  IF placeholders = <<>>
  THEN [LUnchanged(line, m) EXCEPT
          !.prefix = prefix, !.template = message,
          !.params = params_section, !.suffix = suffix]
  ELSE IF Len(placeholders) <= Len(params)
  THEN [matched |-> TRUE, s |-> m.s, e |-> m.e, prefix |-> prefix,
        template |-> message, params |-> params_section, suffix |-> suffix,
        placeholders |-> placeholders, all_params |-> params,
        has_exception |-> FALSE,
        result |->
          prefix \o <<"$", DQ>> \o BindFrom(message, placeholders, params, 1)
          \o <<DQ>>
          \o (IF Slice(params, Len(placeholders) + 1, Len(params)) # <<>>
              THEN <<",", " ">> \o JoinCommaSpace(
                     Slice(params, Len(placeholders) + 1, Len(params)))
              ELSE <<>>)
          \o suffix,
        counted |-> TRUE]
  ELSE [LUnchanged(line, m) EXCEPT
          !.prefix = prefix, !.template = message,
          !.params = params_section, !.suffix = suffix,
          !.placeholders = placeholders, !.all_params = params]

\* Lines 64-98: the placeholders of the message and the parameters.
LFixSplit(line, m, prefix, message, params_section, suffix) ==
  LFixBuild(line, m, prefix, message, params_section, suffix,
            FindPlaceholders(message), LSplitParams(params_section))

\* Lines 56-62: no match leaves the line; else the groups of the match.
LFixMatch(line, m) ==
  IF ~m.ok THEN LUnchanged(line, m)
  ELSE LFixSplit(line, m, Slice(line, m.s, m.g1e - 1),
                 Slice(line, m.g1e + 1, m.g2e - 2),
                 Slice(line, m.g2e, m.g3e - 1), Slice(line, m.g3e, m.e - 1))

\* fix_logging_call(line, method) (lines 49-122): result is the returned line,
\* counted the returned flag; the other fields are what it computed.
LFixLoggingCall(line, method) == LFixMatch(line, LSearch(line, method))

(***************************************************************************)
(* The inputs: buffers built from a logging call with a template, up to    *)
(* MaxArgs arguments and an optional last argument naming an exception,    *)
(* alone or framed by leading text and a following statement.              *)
(***************************************************************************)
MaxArgs == 2

Tpl_a    == <<DQ, "{","a","}", DQ>>
Tpl_a_b  == <<DQ, "{","a","}", " ", "{","b","}", DQ>>
Tpl_aa   == <<DQ, "{","a","}", "{","a","}", DQ>>
Tpl_aab  == <<DQ, "{","a","}", "{","a","}", "{","b","}", DQ>>
Tpl_none == <<DQ, "m", DQ>>
Tpl_done == <<"$", DQ, "{","a","}", DQ>>
Tpl_var  == <<"m">>

Templates == {Tpl_a, Tpl_a_b, Tpl_aa, Tpl_aab, Tpl_none, Tpl_done, Tpl_var}

Arg_a      == <<"a">>
Arg_b      == <<"b">>
Arg_ex     == <<"e","x">>
Arg_exception == <<"e","x","c","e","p","t","i","o","n">>
Arg_call   == <<"F","(","a",","," ","b",")">>
Arg_open   == <<DQ, "u">>
Arg_bsq    == <<DQ, "q", BS, BS, DQ>>
Arg_comma  == <<DQ, "s", ",", "t", DQ>>
Arg_nested == LoggerDot \o LogError \o <<"(">> \o <<DQ, "{","b","}", DQ>>
              \o <<",", " ", "c", ")">>

ArgTexts == {Arg_a, Arg_b, Arg_call, Arg_open, Arg_bsq, Arg_comma, Arg_nested}

LastArgs == {<<>>, <<Arg_ex>>, <<Arg_exception>>}

ArgLists == {args \o tl : args \in UNION {[1..n -> ArgTexts] : n \in 0..MaxArgs},
                          tl \in LastArgs}

RECURSIVE ArgsText(_)
ArgsText(args) ==
  IF Len(args) = 0 THEN <<>>
  ELSE <<",", " ">> \o args[1] \o ArgsText(Tail(args))

CallText(method, tpl, args) ==
  LoggerDot \o method \o <<"(">> \o tpl \o ArgsText(args) \o <<")">>

BareCalls == {CallText(LogError, tpl, args) : tpl \in Templates, args \in ArgLists}

Leads  == {<<>>, <<" ", " ">>}
Trails == {<<>>, <<";">>,
           <<";", " ">> \o CallText(LogInfo, Tpl_a, <<Arg_b>>) \o <<";">>,
           <<";", " ">> \o CallText(LogError, Tpl_a, <<Arg_b, Arg_ex>>) \o <<";">>}

FramedCalls ==
  {lead \o CallText(LogError, tpl, args) \o trail :
     lead \in Leads, trail \in Trails, tpl \in {Tpl_a, Tpl_a_b},
     args \in {<<Arg_a>>, <<Arg_b, Arg_ex>>, <<Arg_call, Arg_ex>>}}

Inputs == BareCalls \cup FramedCalls

(***************************************************************************)
(* State.                                                                  *)
(***************************************************************************)
VARIABLES
  fixer,           \* which script runs: "comprehensive" or "line"
  input,           \* the buffer (or line) given to the first application
  round,           \* 1: first application; 2: applied to its own output
  before,          \* the text given to the current application
  content,         \* content / line: the text as rewritten so far
  changes,         \* changes of the current application
  mi,              \* index into logging_methods of the next method; 6: returned
  patterns_fixed,  \* self.patterns_fixed / self.patterns_found, by method index
  last             \* what the last pass of the loop matched and did

vars == <<fixer, input, round, before, content, changes, mi, patterns_fixed, last>>

\* The state of a run over files (process_file and run).
VARIABLES
  disk,            \* the files: path -> [exists, text]
  run_no,          \* the number of the run under way (each run a new fixer)
  files,           \* run: the list of files to process
  fi,              \* run: the index in files of the file of this iteration
  pc,              \* where run / process_file stands
  pf,              \* process_file: filepath and the locals
  fixed_count,     \* self.fixed_count
  files_processed, \* self.files_processed
  files_modified,  \* self.files_modified
  errors,          \* self.errors (ComprehensiveLoggingFixer): the paths named
  ret,             \* what the last process_file call returned
  io,              \* the file operations of the process_file call under way
  failures,        \* how many file operations have failed so far
  called,          \* run: the files process_file has been called with
  first_text       \* path -> the text a file held before its first rewrite

fvars == <<disk, run_no, files, fi, pc, pf, fixed_count, files_processed,
           files_modified, errors, ret, io, failures, called, first_text>>

\* No run over files is under way.
FileIdle ==
  /\ disk = <<>> /\ run_no = 0 /\ files = <<>> /\ fi = 0 /\ pc = "off"
  /\ pf = <<>> /\ fixed_count = 0 /\ files_processed = 0
  /\ files_modified = 0 /\ errors = <<>> /\ ret = "none" /\ io = <<>>
  /\ failures = 0 /\ called = <<>> /\ first_text = <<>>

NoPass == [src |-> <<>>, method |-> 0, ms |-> <<>>]

Init ==
  /\ fixer \in {"comprehensive", "line"}
  /\ input \in Inputs
  /\ round = 1
  /\ before = input
  /\ content = input
  /\ changes = 0
  /\ mi = 1
  /\ patterns_fixed = [k \in 1..Len(logging_methods) |-> 0]
  /\ last = NoPass
  /\ FileIdle

CountCounted(ms) == Cardinality({k \in 1..Len(ms) : ms[k].counted})

\* One iteration of `for method in logging_methods` (lines 30-109):
\* content = re.sub(pattern, replacer, content).
CPass ==
  /\ fixer = "comprehensive"
  /\ mi <= Len(logging_methods)
  /\ \E ms \in {SubMatches(content, 1, logging_methods[mi])} :
        /\ content' = SubBuild(content, 1, ms, 1)
        /\ changes' = changes + CountCounted(ms)
        /\ patterns_fixed' =
             [patterns_fixed EXCEPT ![mi] = @ + CountCounted(ms)]
        /\ last' = [src |-> content, method |-> mi, ms |-> ms]
  /\ mi' = mi + 1
  /\ UNCHANGED <<fixer, input, round, before>>
  /\ UNCHANGED fvars

\* One iteration of the loop of fix_line (lines 130-135), on the line.
LPass ==
  /\ fixer = "line"
  /\ mi <= Len(logging_methods)
  /\ \E r \in {LFixLoggingCall(content, logging_methods[mi])} :
        /\ content' = IF r.counted THEN r.result ELSE content
        /\ changes' = IF r.counted THEN changes + 1 ELSE changes
        /\ patterns_fixed' =
             IF r.counted THEN [patterns_fixed EXCEPT ![mi] = @ + 1]
             ELSE patterns_fixed
        /\ last' = [src |-> content, method |-> mi,
                    ms |-> IF r.matched THEN <<r>> ELSE <<>>]
  /\ mi' = mi + 1
  /\ UNCHANGED <<fixer, input, round, before>>
  /\ UNCHANGED fvars

\* The fixer is applied to the text it returned.
Reapply ==
  /\ mi = Len(logging_methods) + 1
  /\ round = 1
  /\ round' = 2
  /\ before' = content
  /\ changes' = 0
  /\ mi' = 1
  /\ last' = NoPass
  /\ UNCHANGED <<fixer, input, content, patterns_fixed>>
  /\ UNCHANGED fvars

Next == CPass \/ LPass \/ Reapply

Spec == Init /\ [][Next]_vars

(***************************************************************************)
(* The fixers as functions of a whole buffer, as process_file calls them.  *)
(***************************************************************************)
NoTally == [k \in 1..Len(logging_methods) |-> 0]

\* ComprehensiveLoggingFixer.fix_logging_call(content): the passes of the loop
\* of line 30 for the methods k.. in order, from the text and the count so
\* far; tally is self.patterns_fixed, to which line 100 adds one for every
\* call replaced.
RECURSIVE CFixFrom(_, _, _, _)
RECURSIVE CFixPass(_, _, _, _, _)
CFixFrom(text, n, tally, k) ==
  IF k > Len(logging_methods)
  THEN [content |-> text, changes |-> n, tally |-> tally]
  ELSE CFixPass(text, n, tally, k, SubMatches(text, 1, logging_methods[k]))

CFixPass(text, n, tally, k, ms) ==
  IF ms = <<>> THEN CFixFrom(text, n, tally, k + 1)
  ELSE CFixFrom(SubBuild(text, 1, ms, 1), n + CountCounted(ms),
                [tally EXCEPT ![k] = tally[k] + CountCounted(ms)], k + 1)

\* A faulty variant of CFixLoggingCallOn: the count starts from what the
\* fixer has tallied for LogError so far.
CFixLoggingCallCarries(tally, text) == CFixFrom(text, tally[1], tally, 1)

\* fix_logging_call(content) on a fixer whose patterns_fixed is tally:
\* changes = 0 (line 25), the loop, and the return of line 111.
CFixLoggingCallOn(tally, text) == CFixFrom(text, 0, tally, 1)

\* fix_logging_call(content) on a fixer as __init__ leaves it.
CFixLoggingCall(text) == CFixLoggingCallOn(NoTally, text)

\* LoggingParameterFixer.fix_line(line): the loop of lines 130-135.
RECURSIVE fix_line_from(_, _, _, _)
RECURSIVE fix_line_step(_, _, _, _, _)
fix_line_from(line, n, tally, k) ==
  IF k > Len(logging_methods)
  THEN [content |-> line, changes |-> n, tally |-> tally]
  ELSE fix_line_step(line, n, tally, k, LFixLoggingCall(line, logging_methods[k]))

fix_line_step(line, n, tally, k, r) ==
  IF r.counted
  THEN fix_line_from(r.result, n + 1, [tally EXCEPT ![k] = 1], k + 1)
  ELSE fix_line_from(line, n, tally, k + 1)

fix_line(line) == fix_line_from(line, 0, NoTally, 1)

\* f.readlines(): the lines of the text, each with its line feed (the last
\* one has none when the text does not end with one).
RECURSIVE ReadLinesFrom(_, _)
ReadLinesFrom(text, i) ==
  IF i > Len(text) THEN <<>>
  ELSE IF FirstOf(text, i, {"\n"}) > Len(text)
  THEN <<Slice(text, i, Len(text))>>
  ELSE <<Slice(text, i, FirstOf(text, i, {"\n"}))>>
       \o ReadLinesFrom(text, FirstOf(text, i, {"\n"}) + 1)

ReadLines(text) == ReadLinesFrom(text, 1)

\* line.rstrip('\n')
RStripNewline(line) ==
  Slice(line, 1, CHOOSE k \in 0..Len(line) :
                   /\ k = 0 \/ line[k] # "\n"
                   /\ \A h \in (k + 1)..Len(line) : line[h] = "\n")

\* writelines(line + '\n' for line in lines): what is written.
RECURSIVE JoinWithNewlines(_)
JoinWithNewlines(lines) ==
  IF lines = <<>> THEN <<>>
  ELSE lines[1] \o <<"\n">> \o JoinWithNewlines(Tail(lines))

\* Lines 149-156 of LoggingParameterFixer.process_file from line k on:
\* new_lines, file_changes (with it what is added to fixed_count) and the
\* tallies added to patterns_found.
RECURSIVE LFixLinesFrom(_, _, _)
RECURSIVE LFixLinesStep(_, _, _, _)
LFixLinesFrom(lines, acc, k) ==
  IF k > Len(lines) THEN acc
  ELSE LFixLinesStep(lines, acc, k, fix_line(RStripNewline(lines[k])))

LFixLinesStep(lines, acc, k, r) ==
  LFixLinesFrom(lines,
    [new_lines |-> Append(acc.new_lines, r.content),
     changes   |-> acc.changes + r.changes,
     tally     |-> [j \in 1..Len(logging_methods) |-> acc.tally[j] + r.tally[j]]],
    k + 1)

LFixLines(lines) ==
  LFixLinesFrom(lines, [new_lines |-> <<>>, changes |-> 0, tally |-> NoTally], 1)

(***************************************************************************)
(* LogErrorFixer.fix_logerror_patterns (fix_logerror_systematic.py), line  *)
(* by line.                                                                *)
(***************************************************************************)
\* The patterns, with PREFIX the receiver followed by LogError\( :
\*   1: (PREFIX)"([^"]+\{[^}]+\}[^"]*)"(\s*,\s*)([^,]+)(,\s*)(ex\b)
\*   2: the same with two \{[^}]+\} in the message and two values
\*   3: (PREFIX)(ex\s*,\s*)"([^"]+)"
\* Pattern 4 (lines 77-103) only prints: it changes neither line nor count.

\* f'{{{x}}}'
Braced1(x) == <<"{">> \o x \o <<"}">>

WordChars ==
  {"a","b","c","d","e","f","g","h","i","j","k","l","m","n","o","p","q","r",
   "s","t","u","v","w","x","y","z","A","B","C","D","E","F","G","H","I","J",
   "K","L","M","N","O","P","Q","R","S","T","U","V","W","X","Y","Z",
   "0","1","2","3","4","5","6","7","8","9","_"}

\* ex\b at x.
ExAt(s, x) ==
  /\ x + 1 <= Len(s) /\ s[x] = "e" /\ s[x + 1] = "x"
  /\ (x + 2 > Len(s) \/ s[x + 2] \notin WordChars)

\* The ',' that ends the value starting after the ',' at c ([^,]+ is greedy).
NextComma(s, c) == FirstOf(s, c + 1, {","})

\* n values ([^,]+, at least one character each) after the ',' expected at
\* c, each followed by a ',', then \s* and ex\b.
RECURSIVE SysTail(_, _, _)
SysTail(s, c, n) ==
  IF c > Len(s) \/ s[c] # "," THEN FALSE
  ELSE IF n = 0 THEN ExAt(s, LStripFrom(s, c + 1))
  ELSE NextComma(s, c) > c + 1 /\ SysTail(s, NextComma(s, c), n - 1)

\* [^}]+\} after the '{' at b: the '}' (0: none, or nothing between them).
BraceClose(s, b) ==
  IF FirstOf(s, b + 1, {"}"}) > Len(s) \/ FirstOf(s, b + 1, {"}"}) = b + 1
  THEN 0
  ELSE FirstOf(s, b + 1, {"}"})

\* [^"]*" after the '}' at r (0: no brace): the closing '"', or 0.
QuoteAfter(s, r) ==
  IF r = 0 \/ FirstOf(s, r + 1, {DQ}) > Len(s) THEN 0
  ELSE FirstOf(s, r + 1, {DQ})

\* The '{' a greedy [^"]* (or [^"]+ when some is TRUE) running from p can be
\* followed by.
BraceStarts(s, p, some) ==
  {b \in (IF some THEN p + 1 ELSE p)..(FirstOf(s, p, {DQ}) - 1) : s[b] = "{"}

\* Pattern 1 with the message starting at p: the '{' from which the rest
\* matches, and the closing quote they give.
Good1(s, p) ==
  {b \in BraceStarts(s, p, TRUE) :
     /\ QuoteAfter(s, BraceClose(s, b)) # 0
     /\ SysTail(s, LStripFrom(s, QuoteAfter(s, BraceClose(s, b)) + 1), 1)}

\* Pattern 2 likewise: the second '{' from which the rest matches, the first
\* being at b1.
Good2After(s, b1) ==
  IF BraceClose(s, b1) = 0 THEN {}
  ELSE {b2 \in BraceStarts(s, BraceClose(s, b1) + 1, FALSE) :
          /\ QuoteAfter(s, BraceClose(s, b2)) # 0
          /\ SysTail(s, LStripFrom(s, QuoteAfter(s, BraceClose(s, b2)) + 1), 2)}

Good2(s, p) == {b1 \in BraceStarts(s, p, TRUE) : Good2After(s, b1) # {}}

MaxOf(S) == CHOOSE x \in S : \A y \in S : y <= x
MinOf(S) == CHOOSE x \in S : \A y \in S : x <= y

\* The closing quote of the message of the match of pattern 1 (2) whose
\* message starts at p, or 0: the greedy parts give back as little as needed,
\* so the last '{' that works is taken.
Pattern1Quote(s, p) ==
  IF Good1(s, p) = {} THEN 0
  ELSE QuoteAfter(s, BraceClose(s, MaxOf(Good1(s, p))))

Pattern2Quote(s, p) ==
  IF Good2(s, p) = {} THEN 0
  ELSE QuoteAfter(s, BraceClose(s, MaxOf(Good2After(s, MaxOf(Good2(s, p))))))

\* The end of PREFIX" at i (the start of the message), or 0.
SysMessageStart(s, i) ==
  IF PrefixEnd(s, i, LogError) = 0 \/ PrefixEnd(s, i, LogError) > Len(s) THEN 0
  ELSE IF s[PrefixEnd(s, i, LogError)] # DQ THEN 0
  ELSE PrefixEnd(s, i, LogError) + 1

PatternQuote(s, i, n) ==
  IF SysMessageStart(s, i) = 0 THEN 0
  ELSE IF n = 1 THEN Pattern1Quote(s, SysMessageStart(s, i))
  ELSE Pattern2Quote(s, SysMessageStart(s, i))

\* re.search(pattern1 / pattern2, line): the leftmost start of a match, or 0.
PatternSearch(s, n) ==
  IF {i \in 1..Len(s) : s[i] \in {"T", "_"} /\ PatternQuote(s, i, n) # 0} = {}
  THEN 0
  ELSE MinOf({i \in 1..Len(s) : s[i] \in {"T", "_"} /\ PatternQuote(s, i, n) # 0})

\* Pattern 3 at i: the closing quote of the message, or 0; y is the opening
\* one.
Pattern3Open(s, i) ==
  IF PrefixEnd(s, i, LogError) = 0 THEN 0
  ELSE IF ~StartsWithAt(s, PrefixEnd(s, i, LogError), <<"e", "x">>) THEN 0
  ELSE IF LStripFrom(s, PrefixEnd(s, i, LogError) + 2) > Len(s) THEN 0
  ELSE IF s[LStripFrom(s, PrefixEnd(s, i, LogError) + 2)] # "," THEN 0
  ELSE LStripFrom(s, LStripFrom(s, PrefixEnd(s, i, LogError) + 2) + 1)

Pattern3Close(s, y) ==
  IF y = 0 \/ y > Len(s) THEN 0
  ELSE IF s[y] # DQ THEN 0
  ELSE IF FirstOf(s, y + 1, {DQ}) > Len(s) \/ FirstOf(s, y + 1, {DQ}) = y + 1
  THEN 0
  ELSE FirstOf(s, y + 1, {DQ})

Pattern3Quote(s, i) == Pattern3Close(s, Pattern3Open(s, i))

Pattern3Search(s) ==
  IF {i \in 1..Len(s) : s[i] \in {"T", "_"} /\ Pattern3Quote(s, i) # 0} = {}
  THEN 0
  ELSE MinOf({i \in 1..Len(s) : s[i] \in {"T", "_"} /\ Pattern3Quote(s, i) # 0})

\* re.sub(pattern3, repl, line) from i on: every match is replaced by repl
\* (no message of the inputs holds a backslash, which repl would expand).
RECURSIVE Pattern3Sub(_, _, _)
Pattern3Sub(s, i, repl) ==
  IF FirstOf(s, i, {"T", "_"}) > Len(s) THEN Slice(s, i, Len(s))
  ELSE IF Pattern3Quote(s, FirstOf(s, i, {"T", "_"})) # 0
  THEN Slice(s, i, FirstOf(s, i, {"T", "_"}) - 1) \o repl
       \o Pattern3Sub(s, Pattern3Quote(s, FirstOf(s, i, {"T", "_"})) + 1, repl)
  ELSE Slice(s, i, FirstOf(s, i, {"T", "_"}))
       \o Pattern3Sub(s, FirstOf(s, i, {"T", "_"}) + 1, repl)

\* Lines 66-75, the match of pattern 3 starting at i (0: none).
SysLine3(line, i) ==
  IF i = 0 THEN [line |-> line, changed |-> FALSE]
  ELSE [line |-> Pattern3Sub(line, 1,
                   Slice(line, i, PrefixEnd(line, i, LogError) - 1) \o <<DQ>>
                   \o Slice(line, Pattern3Open(line, i) + 1,
                            Pattern3Quote(line, i) - 1)
                   \o <<DQ, ",", " ", "e", "x">>),
        changed |-> TRUE]

\* Lines 46-64 with the match of pattern 2 starting at i (0: none), its
\* message (from p to before e), the first ',' at c1 and the placeholders.
SysLine2With(line, i, p, e, c1, placeholders) ==
  IF Len(placeholders) = 2
  THEN [line |-> Slice(line, i, p - 2) \o <<"$", DQ>>
                 \o Replace(Replace(Slice(line, p, e - 1),
                                    Braced1(placeholders[1]),
                                    Braced1(Strip(Slice(line, c1 + 1,
                                                NextComma(line, c1) - 1)))),
                            Braced1(placeholders[2]),
                            Braced1(Strip(Slice(line, NextComma(line, c1) + 1,
                                        NextComma(line, NextComma(line, c1)) - 1))))
                 \o <<DQ, ",", " ", "e", "x">>,
        changed |-> TRUE]
  ELSE SysLine3(line, Pattern3Search(line))

SysLine2At(line, i, p, e) ==
  SysLine2With(line, i, p, e, LStripFrom(line, e + 1),
               FindPlaceholders(Slice(line, p, e - 1)))

SysLine2(line, i) ==
  IF i = 0 THEN SysLine3(line, Pattern3Search(line))
  ELSE SysLine2At(line, i, SysMessageStart(line, i), PatternQuote(line, i, 2))

\* Lines 27-44 likewise for pattern 1.
SysLine1With(line, i, p, e, c1, placeholders) ==
  IF Len(placeholders) = 1
  THEN [line |-> Slice(line, i, p - 2) \o <<"$", DQ>>
                 \o Replace(Slice(line, p, e - 1),
                            Braced1(placeholders[1]),
                            Braced1(Strip(Slice(line, c1 + 1,
                                        NextComma(line, c1) - 1))))
                 \o <<DQ, ",", " ", "e", "x">>,
        changed |-> TRUE]
  ELSE SysLine2(line, PatternSearch(line, 2))

SysLine1At(line, i, p, e) ==
  SysLine1With(line, i, p, e, LStripFrom(line, e + 1),
               FindPlaceholders(Slice(line, p, e - 1)))

\* The body of the loop of line 24 on one line.
SysLine(line) ==
  IF PatternSearch(line, 1) = 0 THEN SysLine2(line, PatternSearch(line, 2))
  ELSE SysLine1At(line, PatternSearch(line, 1),
                  SysMessageStart(line, PatternSearch(line, 1)),
                  PatternQuote(line, PatternSearch(line, 1), 1))

\* content.split('\n') from i on.
RECURSIVE SplitLinesFrom(_, _)
SplitLinesFrom(text, i) ==
  IF FirstOf(text, i, {"\n"}) > Len(text) THEN <<Slice(text, i, Len(text))>>
  ELSE <<Slice(text, i, FirstOf(text, i, {"\n"}) - 1)>>
       \o SplitLinesFrom(text, FirstOf(text, i, {"\n"}) + 1)

\* '\n'.join(lines)
RECURSIVE JoinNewline(_)
JoinNewline(lines) ==
  IF Len(lines) = 0 THEN <<>>
  ELSE IF Len(lines) = 1 THEN lines[1]
  ELSE lines[1] \o <<"\n">> \o JoinNewline(Tail(lines))

\* fix_logerror_patterns(content) (lines 19-105).
RECURSIVE SysLinesFrom(_, _, _, _)
RECURSIVE SysLinesStep(_, _, _, _, _)
SysLinesFrom(lines, out, n, k) ==
  IF k > Len(lines) THEN [content |-> JoinNewline(out), changes |-> n]
  ELSE SysLinesStep(lines, out, n, k, SysLine(lines[k]))

SysLinesStep(lines, out, n, k, r) ==
  SysLinesFrom(lines, Append(out, r.line),
               IF r.changed THEN n + 1 ELSE n, k + 1)

fix_logerror_patterns(text) ==
  SysLinesFrom(SplitLinesFrom(text, 1), <<>>, 0, 1)

(***************************************************************************)
(* ComprehensiveLoggingFixer.find_files_with_issues: the search patterns   *)
(* of lines 151-155, searched in the text of each *.cs file.               *)
(***************************************************************************)
\* \w+ from p: the position after the word characters there (p: none).
WordEnd(s, p) ==
  CHOOSE k \in p..(Len(s) + 1) :
    /\ k = Len(s) + 1 \/ s[k] \notin WordChars
    /\ \A j \in p..(k - 1) : s[j] \in WordChars

\* \s*\(\s*" from p: the position of the '"', or 0.
QuoteAhead(s, p) ==
  IF LStripFrom(s, p) > Len(s) THEN 0
  ELSE IF s[LStripFrom(s, p)] # "(" THEN 0
  ELSE IF LStripFrom(s, LStripFrom(s, p) + 1) > Len(s) THEN 0
  ELSE IF s[LStripFrom(s, LStripFrom(s, p) + 1)] # DQ THEN 0
  ELSE LStripFrom(s, LStripFrom(s, p) + 1)

\* [^"]*\{[^}]+\} after the '"' at y (0: no quote): the '{' it can match at.
BracesAhead(s, y) ==
  IF y = 0 THEN {}
  ELSE {b \in BraceStarts(s, y + 1, FALSE) : BraceClose(s, b) # 0}

\* [^"]*"\s*, after the '}' that closes the '{' at b.
CommaAfterTemplate(s, b) ==
  /\ QuoteAfter(s, BraceClose(s, b)) # 0
  /\ LStripFrom(s, QuoteAfter(s, BraceClose(s, b)) + 1) <= Len(s)
  /\ s[LStripFrom(s, QuoteAfter(s, BraceClose(s, b)) + 1)] = ","

\* Log(?:Error|Info|Warning|Debug|Trace)\s*\(\s*"[^"]*\{[^}]+\}[^"]*"\s*,
SearchPattern1At(s, i) ==
  \E k \in 1..Len(logging_methods) :
    /\ StartsWithAt(s, i, logging_methods[k])
    /\ \E b \in BracesAhead(s, QuoteAhead(s, i + Len(logging_methods[k]))) :
         CommaAfterTemplate(s, b)

\* RECEIVER Log\w+\s*\(\s*"[^"]*\{[^}]+\}, the receiver with its Log at i.
SearchPatternLogAt(s, i, receiver_log) ==
  /\ StartsWithAt(s, i, receiver_log)
  /\ WordEnd(s, i + Len(receiver_log)) > i + Len(receiver_log)
  /\ BracesAhead(s, QuoteAhead(s, WordEnd(s, i + Len(receiver_log)))) # {}

\* Lines 168-171: one of the search patterns is found in the text.
HasIssues(s) ==
  \E i \in 1..Len(s) :
    \/ SearchPattern1At(s, i)
    \/ SearchPatternLogAt(s, i, OrchestratorDot \o <<"L", "o", "g">>)
    \/ SearchPatternLogAt(s, i, LoggerDot \o <<"L", "o", "g">>)

(***************************************************************************)
(* The files of a run.                                                     *)
(***************************************************************************)
MaxRuns     == 2
MaxFailures == 1

\* The *.cs files under the root, in sorted order.
Files == <<"A.cs", "B.cs">>

FileSet == {Files[k] : k \in 1..Len(Files)}

\* filepath.with_suffix(filepath.suffix + '.bak_phase2') and, in
\* fix_logerror_systematic, '.bak_logerror'.
BackupPath(filepath) ==
  IF fixer = "systematic" THEN filepath \o ".bak_logerror"
  ELSE filepath \o ".bak_phase2"

BackupsOf(filepath) == {filepath \o ".bak_phase2", filepath \o ".bak_logerror"}

AllPaths == FileSet \cup UNION {BackupsOf(f) : f \in FileSet}

NoFile == [exists |-> FALSE, text |-> <<>>]

Text_plain == <<"x", ";", "\n">>
Text_once  == <<"x", ";", "\n">> \o CallText(LogError, Tpl_a, <<Arg_b>>)
              \o <<";", "\n">>
Text_twice == CallText(LogError, Tpl_a, <<Arg_nested>>) \o <<";">>
Text_none  == CallText(LogError, Tpl_a, <<>>) \o <<";", "\n">>
Text_ex    == CallText(LogError, <<DQ, "m", " ", "{", "a", "}", DQ>>,
                       <<Arg_a, Arg_ex>>) \o <<";", "\n">>

TextsA == {Text_plain, Text_once, Text_twice, Text_none, Text_ex}
TextsB == {Text_once, Text_none}

(***************************************************************************)
(* find_files_with_issues of the other two fixers.                         *)
(***************************************************************************)
\* [^)]*\{[^}]+\} from p, the position after the '(': the '{' it can match at.
ParenBraces(s, p) ==
  {b \in p..(FirstOf(s, p, {")"}) - 1) : s[b] = "{" /\ BraceClose(s, b) # 0}

\* [^)]*, after the '}' at r.
CommaInParens(s, r) ==
  /\ FirstOf(s, r + 1, {",", ")"}) <= Len(s)
  /\ s[FirstOf(s, r + 1, {",", ")"})] = ","

\* METHOD\([^)]*\{[^}]+\}[^)]*, at i
ParenPatternAt(s, i, method) ==
  /\ StartsWithAt(s, i, method \o <<"(">>)
  /\ \E b \in ParenBraces(s, i + Len(method) + 1) :
       CommaInParens(s, BraceClose(s, b))

\* RECEIVER Log\w+\([^)]*\{[^}]+\} at i
ParenPatternLogAt(s, i, receiver_log) ==
  /\ StartsWithAt(s, i, receiver_log)
  /\ WordEnd(s, i + Len(receiver_log)) > i + Len(receiver_log)
  /\ WordEnd(s, i + Len(receiver_log)) <= Len(s)
  /\ s[WordEnd(s, i + Len(receiver_log))] = "("
  /\ ParenBraces(s, WordEnd(s, i + Len(receiver_log)) + 1) # {}

\* fix_logerror_phase2.py, lines 181-198
LHasIssues(s) ==
  \E i \in 1..Len(s) :
    \/ \E k \in 1..Len(logging_methods) : ParenPatternAt(s, i, logging_methods[k])
    \/ ParenPatternLogAt(s, i, OrchestratorDot \o <<"L", "o", "g">>)
    \/ ParenPatternLogAt(s, i, LoggerDot \o <<"L", "o", "g">>)

\* fix_logerror_systematic.py, line 145
SysHasIssues(s) == \E i \in 1..Len(s) : ParenPatternAt(s, i, LogError)

\* The files whose text the fixer's search finds something in, of those
\* that exist and could be read.
Found(readable) ==
  {f \in readable :
     /\ disk[f].exists
     /\ CASE fixer = "comprehensive" -> HasIssues(disk[f].text)
          [] fixer = "line"          -> LHasIssues(disk[f].text)
          [] OTHER                   -> SysHasIssues(disk[f].text)}

\* The lists find_files_with_issues can return for the files found: the
\* sorted one for the phase-2 fixers (sorted(set(files))), the files in the
\* order rglob yields them for fix_logerror_systematic.
Listings(found) ==
  IF fixer = "systematic"
  THEN {l \in UNION {[1..n -> found] : n \in 0..Len(Files)} :
          /\ Len(l) = Cardinality(found)
          /\ \A f \in found : \E k \in 1..Len(l) : l[k] = f}
  ELSE {SelectSeq(Files, LAMBDA f : f \in found)}

(***************************************************************************)
(* run and process_file, one file operation at a time.                     *)
(***************************************************************************)
\* No call of process_file: filepath, the locals, and (entry) the counters
\* and tallies of the fixer as they stood when the call was made.
NoCall == [filepath |-> "", original |-> <<>>, backup |-> <<>>, fixed |-> <<>>,
           changes |-> 0,
           entry |-> [fixed_count |-> 0, files_modified |-> 0, tally |-> NoTally]]

FInit ==
  /\ fixer \in {"comprehensive", "line", "systematic"}
  /\ input = <<>> /\ round = 0 /\ before = <<>> /\ content = <<>>
  /\ changes = 0 /\ mi = 0 /\ last = NoPass
  /\ patterns_fixed = NoTally
  /\ \E ta \in TextsA, tb \in TextsB :
       disk = [f \in AllPaths |->
                 IF f = Files[1] THEN [exists |-> TRUE, text |-> ta]
                 ELSE IF f = Files[2] THEN [exists |-> TRUE, text |-> tb]
                 ELSE NoFile]
  /\ run_no = 1 /\ files = <<>> /\ fi = 0 /\ pc = "start" /\ pf = NoCall
  /\ fixed_count = 0 /\ files_processed = 0 /\ files_modified = 0
  /\ errors = <<>> /\ ret = "none" /\ io = <<>> /\ failures = 0
  /\ called = <<>>
  /\ first_text = [f \in FileSet |-> [seen |-> FALSE, text |-> <<>>]]

CanFail == failures < MaxFailures

\* A faulty variant of NeedsWrite: the files are written whatever the count.
NeedsWriteAlways(n) == n >= 0

\* The if of process_file: changes > 0 (in fix_logerror_phase2, modified).
NeedsWrite(n) == n > 0

\* A faulty variant of Except: the failure is not recorded.
ExceptUnrecorded ==
  /\ pc' = "returned"
  /\ ret' = "False"
  /\ errors' = errors
  /\ failures' = failures + 1

\* A faulty variant of Except: the failure leaves process_file and ends run.
ExceptPropagates ==
  /\ pc' = "done"
  /\ ret' = "none"
  /\ errors' = errors
  /\ failures' = failures + 1

\* The except clause of process_file: the failure is printed, recorded in
\* self.errors by ComprehensiveLoggingFixer, and False is returned.
Except ==
  /\ pc' = "returned"
  /\ ret' = "False"
  /\ errors' = IF fixer = "comprehensive" THEN Append(errors, pf.filepath)
               ELSE errors
  /\ failures' = failures + 1

\* run up to its loop: find_files_with_issues reads every file (one that
\* cannot be read is left out) and the list is made.
Discover ==
  /\ called' = called
  /\ pc = "start"
  /\ \E bad \in SUBSET FileSet :
       /\ failures + Cardinality(bad) <= MaxFailures
       /\ failures' = failures + Cardinality(bad)
       /\ \E l \in Listings(Found(FileSet \ bad)) :
            /\ files' = l
            /\ fi' = 1
            /\ pc' = IF l = <<>> /\ fixer = "comprehensive" THEN "done"
                     ELSE "loop"
  /\ UNCHANGED <<disk, run_no, pf, fixed_count, files_processed,
                 files_modified, errors, ret, io, first_text>>
  /\ UNCHANGED vars

\* The loop of run calls process_file for the next file of the list.
Call ==
  /\ pc = "loop"
  /\ fi <= Len(files)
  /\ pf' = [NoCall EXCEPT !.filepath = files[fi],
                          !.entry = [fixed_count |-> fixed_count,
                                     files_modified |-> files_modified,
                                     tally |-> patterns_fixed]]
  /\ called' = Append(called, files[fi])
  /\ io' = <<>>
  /\ ret' = "none"
  /\ pc' = "read"
  /\ UNCHANGED <<disk, run_no, files, fi, fixed_count, files_processed,
                 files_modified, errors, failures, first_text>>
  /\ UNCHANGED vars

\* open(filepath, 'r') and read() / readlines()
Read ==
  /\ called' = called
  /\ pc = "read"
  /\ \/ /\ io' = Append(io, [op |-> "read", path |-> pf.filepath])
        /\ pf' = [pf EXCEPT !.original = disk[pf.filepath].text]
        /\ pc' = "fix"
        /\ UNCHANGED <<ret, errors, failures>>
     \/ /\ CanFail
        /\ io' = Append(io, [op |-> "read_failed", path |-> pf.filepath])
        /\ Except
        /\ UNCHANGED pf
  /\ UNCHANGED <<disk, run_no, files, fi, fixed_count, files_processed,
                 files_modified, first_text>>
  /\ UNCHANGED vars

\* A faulty variant of AfterFix: the original is rewritten with no backup.
AfterFixSkipsBackup(n) ==
  /\ pc' = IF NeedsWrite(n) THEN "original_open" ELSE "returned"
  /\ ret' = IF NeedsWrite(n) THEN ret ELSE "False"

\* Where process_file goes after the fix: to the backup, or to return False.
AfterFix(n) ==
  /\ pc' = IF NeedsWrite(n) THEN "backup_open" ELSE "returned"
  /\ ret' = IF NeedsWrite(n) THEN ret ELSE "False"

\* ComprehensiveLoggingFixer.process_file, line 119
CFix ==
  /\ called' = called
  /\ pc = "fix" /\ fixer = "comprehensive"
  /\ \E r \in {CFixLoggingCallOn(patterns_fixed, pf.original)} :
       /\ pf' = [pf EXCEPT !.backup = pf.original,
                           !.fixed = r.content, !.changes = r.changes]
       /\ patterns_fixed' = r.tally
       /\ AfterFix(r.changes)
  /\ UNCHANGED <<disk, run_no, files, fi, fixed_count, files_processed,
                 files_modified, errors, io, failures, first_text>>
  /\ UNCHANGED <<fixer, input, round, before, content, changes, mi, last>>

\* LoggingParameterFixer.process_file, lines 145-156
LFix ==
  /\ called' = called
  /\ pc = "fix" /\ fixer = "line"
  /\ \E r \in {LFixLines(ReadLines(pf.original))} :
       /\ pf' = [pf EXCEPT
                   !.backup = JoinWithNewlines(ReadLines(pf.original)),
                   !.fixed = JoinWithNewlines(r.new_lines),
                   !.changes = r.changes]
       /\ patterns_fixed' = [k \in 1..Len(logging_methods) |->
                               patterns_fixed[k] + r.tally[k]]
       /\ fixed_count' = fixed_count + r.changes
       /\ AfterFix(r.changes)
  /\ UNCHANGED <<disk, run_no, files, fi, files_processed,
                 files_modified, errors, io, failures, first_text>>
  /\ UNCHANGED <<fixer, input, round, before, content, changes, mi, last>>

\* LogErrorFixer.process_file, line 113
SFix ==
  /\ called' = called
  /\ pc = "fix" /\ fixer = "systematic"
  /\ \E r \in {fix_logerror_patterns(pf.original)} :
       /\ pf' = [pf EXCEPT !.backup = pf.original,
                           !.fixed = r.content, !.changes = r.changes]
       /\ AfterFix(r.changes)
  /\ UNCHANGED <<disk, run_no, files, fi, fixed_count, files_processed,
                 files_modified, errors, io, failures, first_text>>
  /\ UNCHANGED vars

\* What a write that fails can leave in the file: nothing, or the first half.
Partial(data) == {<<>>, Slice(data, 1, Len(data) \div 2)}

\* open(path, 'w'): the file is created or cut to nothing; when the open
\* fails the file is as it was.
OpenForWriting(path, next) ==
  \/ /\ disk' = [disk EXCEPT ![path] = [exists |-> TRUE, text |-> <<>>]]
     /\ io' = Append(io, [op |-> "open_w", path |-> path])
     /\ pc' = next
     /\ UNCHANGED <<ret, errors, failures>>
  \/ /\ CanFail
     /\ io' = Append(io, [op |-> "open_failed", path |-> path])
     /\ Except
     /\ UNCHANGED disk

\* open(backup_path, 'w')
BackupOpen ==
  /\ called' = called
  /\ pc = "backup_open"
  /\ OpenForWriting(BackupPath(pf.filepath), "backup_write")
  /\ UNCHANGED <<run_no, files, fi, pf, fixed_count, files_processed,
                 files_modified, first_text>>
  /\ UNCHANGED vars

\* f.write(content) / f.writelines(...) into the backup, and the close.
BackupWrite ==
  /\ called' = called
  /\ pc = "backup_write"
  /\ \/ /\ disk' = [disk EXCEPT ![BackupPath(pf.filepath)].text = pf.backup]
        /\ io' = Append(io, [op |-> "write", path |-> BackupPath(pf.filepath)])
        /\ pc' = "original_open"
        /\ UNCHANGED <<ret, errors, failures>>
     \/ /\ CanFail
        /\ \E part \in Partial(pf.backup) :
             disk' = [disk EXCEPT ![BackupPath(pf.filepath)].text = part]
        /\ io' = Append(io, [op |-> "write_failed",
                             path |-> BackupPath(pf.filepath)])
        /\ Except
  /\ UNCHANGED <<run_no, files, fi, pf, fixed_count, files_processed,
                 files_modified, first_text>>
  /\ UNCHANGED vars

\* open(filepath, 'w')
OriginalOpen ==
  /\ called' = called
  /\ pc = "original_open"
  /\ OpenForWriting(pf.filepath, "original_write")
  /\ UNCHANGED <<run_no, files, fi, pf, fixed_count, files_processed,
                 files_modified, first_text>>
  /\ UNCHANGED vars

\* f.write(fixed_content) / f.writelines(...), the close, the counters and
\* return True.
OriginalWrite ==
  /\ called' = called
  /\ pc = "original_write"
  /\ \/ /\ disk' = [disk EXCEPT ![pf.filepath].text = pf.fixed]
        /\ io' = Append(io, [op |-> "write", path |-> pf.filepath])
        /\ fixed_count' = IF fixer = "line" THEN fixed_count
                          ELSE fixed_count + pf.changes
        /\ files_modified' = files_modified + 1
        /\ pc' = "returned"
        /\ ret' = "True"
        /\ first_text' =
             IF first_text[pf.filepath].seen THEN first_text
             ELSE [first_text EXCEPT
                     ![pf.filepath] = [seen |-> TRUE, text |-> pf.original]]
        /\ UNCHANGED <<errors, failures>>
     \/ /\ CanFail
        /\ \E part \in Partial(pf.fixed) :
             disk' = [disk EXCEPT ![pf.filepath].text = part]
        /\ io' = Append(io, [op |-> "write_failed", path |-> pf.filepath])
        /\ Except
        /\ UNCHANGED <<fixed_count, files_modified, first_text>>
  /\ UNCHANGED <<run_no, files, fi, pf, files_processed>>
  /\ UNCHANGED vars

\* run: process_file has returned; self.files_processed += 1 and the loop
\* goes on to the next file.
Count ==
  /\ called' = called
  /\ pc = "returned"
  /\ files_processed' = files_processed + 1
  /\ fi' = fi + 1
  /\ pc' = "loop"
  /\ UNCHANGED <<disk, run_no, files, pf, fixed_count, files_modified,
                 errors, ret, io, failures, first_text>>
  /\ UNCHANGED vars

\* run: the list is exhausted; the summary is printed.
EndRun ==
  /\ called' = called
  /\ pc = "loop"
  /\ fi > Len(files)
  /\ pc' = "done"
  /\ UNCHANGED <<disk, run_no, files, fi, pf, fixed_count, files_processed,
                 files_modified, errors, ret, io, failures, first_text>>
  /\ UNCHANGED vars

\* The script is started again: main makes a new fixer and calls run.
NewRun ==
  /\ pc = "done"
  /\ run_no < MaxRuns
  /\ run_no' = run_no + 1
  /\ pc' = "start"
  /\ files' = <<>> /\ fi' = 0 /\ pf' = NoCall
  /\ fixed_count' = 0 /\ files_processed' = 0 /\ files_modified' = 0
  /\ errors' = <<>> /\ ret' = "none" /\ io' = <<>> /\ called' = <<>>
  /\ patterns_fixed' = NoTally
  /\ UNCHANGED <<disk, failures, first_text>>
  /\ UNCHANGED <<fixer, input, round, before, content, changes, mi, last>>

FNext ==
  \/ Discover \/ Call \/ Read \/ CFix \/ LFix \/ SFix
  \/ BackupOpen \/ BackupWrite \/ OriginalOpen \/ OriginalWrite
  \/ Count \/ EndRun \/ NewRun

FileSpec == FInit /\ [][FNext]_<<vars, fvars>>

(***************************************************************************)
(* LogErrorFixer.fix_logerror_patterns applied to a text, and to its own   *)
(* output.                                                                 *)
(***************************************************************************)
MaxRounds == 2

Msg_a   == <<DQ, "m", " ", "{", "a", "}", DQ>>
Msg_a_b == <<DQ, "m", " ", "{", "a", "}", " ", "{", "b", "}", DQ>>
Msg_m   == <<DQ, "m", DQ>>
Arg_Fb  == <<"F", "(", "b", ")">>

SysValues == {Arg_a, Arg_b, Arg_Fb}

\* LogError("m {a}", v, ex) and LogError("m {a} {b}", v1, v2, ex)
SysCall1(v)      == CallText(LogError, Msg_a, <<v, Arg_ex>>)
SysCall2(v1, v2) == CallText(LogError, Msg_a_b, <<v1, v2, Arg_ex>>)

\* Calls with the exception first, and calls no pattern is written for.
SysOtherCalls ==
  {CallText(LogError, Arg_ex, <<Msg_m>>),
   CallText(LogError, Arg_ex, <<Msg_a>>),
   CallText(LogError, Arg_ex, <<Msg_a, Arg_ex>>),
   CallText(LogError, Arg_ex, <<Msg_a, Arg_b, Arg_ex>>),
   CallText(LogError, Msg_m, <<Arg_ex>>),
   CallText(LogError, Msg_a, <<Arg_b>>),
   CallText(LogError, Msg_a_b, <<Arg_b, Arg_ex>>),
   CallText(LogInfo, Msg_a, <<Arg_b, Arg_ex>>),
   OrchestratorDot \o LogError \o <<"(">> \o Msg_a
     \o ArgsText(<<Arg_b, Arg_ex>>) \o <<")">>}

SysCalls ==
  {SysCall1(v) : v \in SysValues}
  \cup {SysCall2(v1, v2) : v1 \in SysValues, v2 \in {Arg_a, Arg_b}}
  \cup SysOtherCalls

SysLeads  == {<<>>, <<" ", " ">>}
SysTrails == {<<>>, <<";">>}

SysLines == {lead \o c \o trail : lead \in SysLeads, c \in SysCalls,
                                  trail \in SysTrails}

\* Texts of one line, and of two lines the first of which is a call with its
\* semicolon.
SysInputs ==
  SysLines
  \cup {c \o <<";", "\n">> \o l :
          c \in {SysCall1(Arg_b), CallText(LogError, Arg_ex, <<Msg_m>>),
                 <<"x">>},
          l \in {SysCall1(Arg_a) \o <<";">>, <<"y", ";", "\n">>}}

SysInit ==
  /\ fixer = "systematic"
  /\ input \in SysInputs
  /\ round = 0
  /\ before = <<>>
  /\ content = input
  /\ changes = 0
  /\ mi = 0
  /\ patterns_fixed = NoTally
  /\ last = NoPass
  /\ FileIdle

\* fix_logerror_patterns is called with the text in hand.
SysApply ==
  /\ fixer = "systematic"
  /\ round < MaxRounds
  /\ \E r \in {fix_logerror_patterns(content)} :
       /\ content' = r.content
       /\ changes' = r.changes
  /\ before' = content
  /\ round' = round + 1
  /\ UNCHANGED <<fixer, input, mi, patterns_fixed, last>>
  /\ UNCHANGED fvars

SysNext == SysApply

SysSpec == SysInit /\ [][SysNext]_vars

(***************************************************************************)
(* fix_riskmanagement_warnings.py: fix_ca_warnings on the text of a file.  *)
(***************************************************************************)
Lit_if_not == <<"i", "f", " ", "(", "!">>
Lit_if == <<"i", "f", " ", "(">>
Lit_any_close == <<".", "A", "n", "y", "(", ")", ")">>
Lit_any == <<".", "A", "n", "y", "(", ")">>
Lit_eq == <<"=", " ">>
Lit_count_zero == <<".", "C", "o", "u", "n", "t", " ", "=", "=", " ", "0",
  ")">>
Lit_count_some == <<".", "C", "o", "u", "n", "t", " ", ">", " ", "0",
  ")">>
Lit_count == <<".", "C", "o", "u", "n", "t", " ", ">", " ", "0">>
Lit_List == <<"L", "i", "s", "t">>
Lit_reasons == <<"r", "e", "a", "s", "o", "n", "s">>
Lit_positionsList == <<"p", "o", "s", "i", "t", "i", "o", "n", "s", "L",
  "i", "s", "t">>
Lit_violations == <<"v", "i", "o", "l", "a", "t", "i", "o", "n", "s">>
Lit_returns == <<"r", "e", "t", "u", "r", "n", "s">>
Lit_public == <<"p", "u", "b", "l", "i", "c">>
Lit_async == <<"a", "s", "y", "n", "c">>
Lit_override == <<"o", "v", "e", "r", "r", "i", "d", "e">>
Lit_Task == <<"T", "a", "s", "k">>
Lit_Task_decimal == <<"T", "a", "s", "k", "<", "d", "e", "c", "i", "m",
  "a", "l", ">">>
Lit_CalculateBetaAsync == <<"C", "a", "l", "c", "u", "l", "a", "t", "e",
  "B", "e", "t", "a", "A", "s", "y", "n", "c">>
Lit_assetReturns == <<"a", "s", "s", "e", "t", "R", "e", "t", "u", "r",
  "n", "s">>
Lit_marketReturns == <<"m", "a", "r", "k", "e", "t", "R", "e", "t", "u",
  "r", "n", "s">>
Lit_null_test == <<" ", "=", "=", " ", "n", "u", "l", "l", ")">>
Lit_throw == <<" ", "t", "h", "r", "o", "w", " ", "n", "e", "w", " ">>
Lit_ArgumentNull == <<"A", "r", "g", "u", "m", "e", "n", "t", "N", "u",
  "l", "l", "E", "x", "c", "e", "p", "t", "i", "o", "n", "(", "n", "a",
  "m", "e", "o", "f", "(">>
Lit_close2 == <<")", ")">>
Lit_indent == <<" ", " ", " ", " ", " ", " ", " ", " ", " ", " ", " ",
  " ">>

\* Lines 41-51
null_check_methods ==
  <<[method_name |->
       <<"C", "a", "l", "c", "u", "l", "a", "t", "e", "V", "a", "R", "A",
         "s", "y", "n", "c">>,
     param_name |->
       <<"r", "e", "t", "u", "r", "n", "s">>],
    [method_name |->
       <<"C", "a", "l", "c", "u", "l", "a", "t", "e", "E", "x", "p", "e",
         "c", "t", "e", "d", "S", "h", "o", "r", "t", "f", "a", "l", "l", "A",
         "s", "y", "n", "c">>,
     param_name |->
       <<"r", "e", "t", "u", "r", "n", "s">>],
    [method_name |->
       <<"C", "a", "l", "c", "u", "l", "a", "t", "e", "M", "a", "x", "D",
         "r", "a", "w", "d", "o", "w", "n", "A", "s", "y", "n", "c">>,
     param_name |->
       <<"p", "o", "r", "t", "f", "o", "l", "i", "o", "V", "a", "l", "u",
         "e", "s">>],
    [method_name |->
       <<"C", "a", "l", "c", "u", "l", "a", "t", "e", "S", "h", "a", "r",
         "p", "e", "R", "a", "t", "i", "o", "A", "s", "y", "n", "c">>,
     param_name |->
       <<"r", "e", "t", "u", "r", "n", "s">>],
    [method_name |->
       <<"C", "a", "l", "c", "u", "l", "a", "t", "e", "B", "e", "t", "a",
         "A", "s", "y", "n", "c">>,
     param_name |->
       <<"a", "s", "s", "e", "t", "R", "e", "t", "u", "r", "n", "s">>],
    [method_name |->
       <<"C", "a", "l", "c", "u", "l", "a", "t", "e", "P", "o", "r", "t",
         "f", "o", "l", "i", "o", "R", "i", "s", "k">>,
     param_name |->
       <<"p", "o", "s", "i", "t", "i", "o", "n", "s">>],
    [method_name |->
       <<"U", "p", "d", "a", "t", "e", "P", "o", "s", "i", "t", "i", "o",
         "n", "A", "s", "y", "n", "c">>,
     param_name |->
       <<"p", "o", "s", "i", "t", "i", "o", "n">>],
    [method_name |->
       <<"V", "a", "l", "i", "d", "a", "t", "e", "R", "e", "g", "u", "l",
         "a", "t", "o", "r", "y", "L", "i", "m", "i", "t", "s", "A", "s", "y",
         "n", "c">>,
     param_name |->
       <<"r", "e", "q", "u", "e", "s", "t">>],
    [method_name |->
       <<"L", "o", "g", "C", "o", "m", "p", "l", "i", "a", "n", "c", "e",
         "E", "v", "e", "n", "t", "A", "s", "y", "n", "c">>,
     param_name |->
       <<"c", "o", "m", "p", "l", "i", "a", "n", "c", "e", "E", "v", "e",
         "n", "t">>]>>

\* x in s
Contains(s, x) == FindAt(s, 1, x) <= Len(s)

\* The word (\w*) that starts at p.
WordAt(s, p) == Slice(s, p, WordEnd(s, p) - 1)

\* \w+List|reasons|positionsList|violations, as the whole word before .Any
ListName(w) ==
  \/ Len(w) > Len(Lit_List) /\ Slice(w, Len(w) - 3, Len(w)) = Lit_List
  \/ w \in {Lit_reasons, Lit_positionsList, Lit_violations}

\* HEAD(NAME)TAIL at i, NAME a word for which ok holds: the position after
\* the match, or 0.  The name is the whole run of word characters, since
\* the tail starts with a '.'.
AnyEnd(s, i, head, tail, ok) ==
  IF /\ StartsWithAt(s, i, head)
     /\ ok
     /\ StartsWithAt(s, WordEnd(s, i + Len(head)), tail)
  THEN WordEnd(s, i + Len(head)) + Len(tail)
  ELSE 0

\* public\s+ at i: the position after it, or 0.
AfterPublic(s, i) ==
  IF /\ StartsWithAt(s, i, Lit_public)
     /\ LStripFrom(s, i + Len(Lit_public)) > i + Len(Lit_public)
  THEN LStripFrom(s, i + Len(Lit_public))
  ELSE 0

\* (?:w\s+)? at p (0: no match so far): the position after it.
OptWord(s, p, w) ==
  IF StartsWithAt(s, p, w) /\ LStripFrom(s, p + Len(w)) > p + Len(w)
  THEN LStripFrom(s, p + Len(w))
  ELSE p

\* w\s+ at p: the position after it, or 0.
NeedWord(s, p, w) ==
  IF StartsWithAt(s, p, w) /\ LStripFrom(s, p + Len(w)) > p + Len(w)
  THEN LStripFrom(s, p + Len(w))
  ELSE 0

\* Task[<\w>]* at p: the position after it, or 0.
TaskTypeEnd(s, p) ==
  IF ~StartsWithAt(s, p, Lit_Task) THEN 0
  ELSE CHOOSE k \in (p + Len(Lit_Task))..(Len(s) + 1) :
         /\ k = Len(s) + 1 \/ s[k] \notin (WordChars \cup {"<", ">"})
         /\ \A j \in (p + Len(Lit_Task))..(k - 1) :
              s[j] \in (WordChars \cup {"<", ">"})

\* \s+NAME\s*\( after the type ending before p: the position of the '(', or 0.
NameOpen(s, p, name) ==
  IF p = 0 THEN 0
  ELSE IF LStripFrom(s, p) = p THEN 0
  ELSE IF ~StartsWithAt(s, LStripFrom(s, p), name) THEN 0
  ELSE IF LStripFrom(s, LStripFrom(s, p) + Len(name)) > Len(s) THEN 0
  ELSE IF s[LStripFrom(s, LStripFrom(s, p) + Len(name))] # "(" THEN 0
  ELSE LStripFrom(s, LStripFrom(s, p) + Len(name))

\* x lies within s[a..b].
Within(s, a, b, x) ==
  \E k \in a..(b - Len(x) + 1) : StartsWithAt(s, k, x)

\* [^)]*PARAM[^)]*\) after the '(' at o: the position of the ')', or 0.
ParamClose(s, o, param) ==
  IF o = 0 THEN 0
  ELSE IF FirstOf(s, o + 1, {")"}) > Len(s) THEN 0
  ELSE IF Within(s, o + 1, FirstOf(s, o + 1, {")"}) - 1, param)
  THEN FirstOf(s, o + 1, {")"})
  ELSE 0

\* [^)]*assetReturns[^)]*,\s*[^)]*marketReturns[^)]*\) after the '(' at o.
BetaParamClose(s, o) ==
  IF o = 0 THEN 0
  ELSE IF FirstOf(s, o + 1, {")"}) > Len(s) THEN 0
  ELSE IF \E k \in (o + 1)..Len(s), m \in (o + 1)..Len(s) :
            /\ StartsWithAt(s, k, Lit_assetReturns)
            /\ m >= k + Len(Lit_assetReturns)
            /\ s[m] = ","
            /\ Within(s, m + 1, FirstOf(s, o + 1, {")"}) - 1,
                      Lit_marketReturns)
  THEN FirstOf(s, o + 1, {")"})
  ELSE 0

\* \s*\n\s*BRACES after the ')' at c: the position after the braces, or 0.
BodyOpen(s, c, braces) ==
  IF c = 0 THEN 0
  ELSE IF /\ StartsWithAt(s, LStripFrom(s, c + 1), braces)
          /\ \E j \in (c + 1)..(LStripFrom(s, c + 1) - 1) : s[j] = "\n"
  THEN LStripFrom(s, c + 1) + Len(braces)
  ELSE 0

\* method_pattern (line 55) for the k-th entry of null_check_methods at i.
MethodEnd(s, i, k) ==
  BodyOpen(s,
    ParamClose(s,
      NameOpen(s,
        TaskTypeEnd(s,
          OptWord(s, OptWord(s, AfterPublic(s, i), Lit_async), Lit_override)),
        null_check_methods[k].method_name),
      null_check_methods[k].param_name),
    <<"{">>)

\* beta_pattern (line 73) at i; it is no f-string, its {{ is two braces.
BetaEnd(s, i) ==
  BodyOpen(s,
    BetaParamClose(s,
      NameOpen(s,
        IF NeedWord(s, AfterPublic(s, i), Lit_async) # 0
           /\ StartsWithAt(s, NeedWord(s, AfterPublic(s, i), Lit_async),
                           Lit_Task_decimal)
        THEN NeedWord(s, AfterPublic(s, i), Lit_async) + Len(Lit_Task_decimal)
        ELSE 0,
        Lit_CalculateBetaAsync)),
    <<"{", "{">>)

\* The patterns by number: 1 to 3 are Pattern 1 to 3 of lines 19-37, 3 + k
\* is method_pattern for null_check_methods[k], BetaPattern is beta_pattern.
BetaPattern == 3 + Len(null_check_methods) + 1

\* The position after the match of the pattern at i, or 0.
CaEnd(s, i, pat) ==
  CASE pat = 1 -> AnyEnd(s, i, Lit_if_not, Lit_any_close,
                         ListName(WordAt(s, i + Len(Lit_if_not))))
    [] pat = 2 -> AnyEnd(s, i, Lit_if, Lit_any_close,
                         WordAt(s, i + Len(Lit_if))
                           \in {Lit_reasons, Lit_violations, Lit_returns})
    [] pat = 3 -> AnyEnd(s, i, Lit_eq, Lit_any,
                         WordAt(s, i + Len(Lit_eq)) = Lit_violations)
    [] pat = BetaPattern -> BetaEnd(s, i)
    [] OTHER -> MethodEnd(s, i, pat - 3)

\* if (PARAM == null) and ArgumentNullException(nameof(PARAM))
NullTest(param)   == Lit_if \o param \o Lit_null_test
NullThrown(param) == Lit_ArgumentNull \o param \o Lit_close2

\* The null check of lines 66-67 and 91, without line feeds.
NullCheck(param) ==
  Lit_indent \o NullTest(param) \o Lit_throw \o NullThrown(param) \o <<";">>

\* add_null_check (lines 57-68) for the match ending before e.
AddNullCheck(s, m, e, param) ==
  IF \/ Contains(Slice(s, e, MinOf({e + 199, Len(s)})), NullTest(param))
     \/ Contains(Slice(s, e, MinOf({e + 199, Len(s)})), NullThrown(param))
  THEN Slice(s, m, e - 1)
  ELSE Slice(s, m, e - 1) \o <<"\n">> \o NullCheck(param) \o <<"\n">>

\* Lines 79-83: whether a check is needed for param, given next_lines.
CheckNeeded(next_lines, param) ==
  /\ ~Contains(next_lines, NullTest(param))
  /\ ~Contains(next_lines, NullThrown(param))

\* add_beta_null_checks (lines 74-93) for the match ending before e.
AddBetaNullChecks(s, m, e, next_lines) ==
  IF /\ ~CheckNeeded(next_lines, Lit_assetReturns)
     /\ ~CheckNeeded(next_lines, Lit_marketReturns)
  THEN Slice(s, m, e - 1)
  ELSE Slice(s, m, e - 1)
       \o (IF CheckNeeded(next_lines, Lit_assetReturns)
           THEN <<"\n">> \o NullCheck(Lit_assetReturns) ELSE <<>>)
       \o (IF CheckNeeded(next_lines, Lit_marketReturns)
           THEN <<"\n">> \o NullCheck(Lit_marketReturns) ELSE <<>>)
       \o <<"\n">>

\* What the match of the pattern at m, ending before e, is replaced by.
CaRepl(s, m, e, pat) ==
  CASE pat = 1 -> Lit_if \o WordAt(s, m + Len(Lit_if_not)) \o Lit_count_zero
    [] pat = 2 -> Lit_if \o WordAt(s, m + Len(Lit_if)) \o Lit_count_some
    [] pat = 3 -> Lit_eq \o WordAt(s, m + Len(Lit_eq)) \o Lit_count
    [] pat = BetaPattern ->
         AddBetaNullChecks(s, m, e, Slice(s, e, MinOf({e + 399, Len(s)})))
    [] OTHER -> AddNullCheck(s, m, e, null_check_methods[pat - 3].param_name)

\* The first position >= i where the pattern matches (0: none).
CaNext(s, i, pat) ==
  IF \E k \in i..Len(s) : CaEnd(s, k, pat) # 0
  THEN CHOOSE k \in i..Len(s) :
         /\ CaEnd(s, k, pat) # 0
         /\ \A j \in i..(k - 1) : CaEnd(s, j, pat) = 0
  ELSE 0

\* re.sub of the pattern over s from i on; m is the next match.
RECURSIVE CaSubFrom(_, _, _)
RECURSIVE CaSubAt(_, _, _, _)
CaSubFrom(s, i, pat) == CaSubAt(s, i, pat, CaNext(s, i, pat))

CaSubAt(s, i, pat, m) ==
  IF m = 0 THEN Slice(s, i, Len(s))
  ELSE Slice(s, i, m - 1) \o CaRepl(s, m, CaEnd(s, m, pat), pat)
       \o CaSubFrom(s, CaEnd(s, m, pat), pat)

\* Lines 19-95: the substitutions one after the other, from pattern pat on.
RECURSIVE CaFixFrom(_, _)
CaFixFrom(s, pat) ==
  IF pat > BetaPattern THEN s
  ELSE IF CaNext(s, 1, pat) = 0 THEN CaFixFrom(s, pat + 1)
  ELSE CaFixFrom(CaSubFrom(s, 1, pat), pat + 1)

\* The content fix_ca_warnings arrives at for the content read.
CaFixed(s) == CaFixFrom(s, 1)

(***************************************************************************)
(* fix_riskmanagement_warnings.py: main, one file operation at a time.     *)
(***************************************************************************)
\* files_to_fix (lines 109-113); base_path is left out of the names.
files_to_fix == <<"RiskCalculatorCanonical.cs", "PositionMonitorCanonical.cs",
                  "ComplianceMonitorCanonical.cs">>

\* Contents a listed file may hold: nothing to fix, a list test, a method
\* that lacks its null check.
Risk_plain == <<"x", ";", "\n">>
Risk_any == <<"i", "f", " ", "(", "!", "r", "e", "a", "s", "o", "n", "s",
  ".", "A", "n", "y", "(", ")", ")", " ", "x", ";", "\n">>
Risk_method == <<"p", "u", "b", "l", "i", "c", " ", "T", "a", "s", "k",
  " ", "C", "a", "l", "c", "u", "l", "a", "t", "e", "V", "a", "R", "A",
  "s", "y", "n", "c", "(", "r", "e", "t", "u", "r", "n", "s", ")", "\n",
  "{">>

RiskTexts == {Risk_plain, Risk_any, Risk_method}

RiskInit ==
  /\ fixer = "riskmanagement"
  /\ input = <<>> /\ round = 0 /\ before = <<>> /\ content = <<>>
  /\ changes = 0 /\ mi = 0 /\ last = NoPass
  /\ patterns_fixed = NoTally
  /\ disk \in [{files_to_fix[k] : k \in 1..Len(files_to_fix)} ->
                 {NoFile} \cup {[exists |-> TRUE, text |-> t] : t \in RiskTexts}]
  /\ run_no = 1 /\ files = files_to_fix /\ fi = 1 /\ pc = "loop"
  /\ pf = NoCall
  /\ fixed_count = 0 /\ files_processed = 0 /\ files_modified = 0
  /\ errors = <<>> /\ ret = "none" /\ io = <<>> /\ failures = 0
  /\ called = <<>>
  /\ first_text = <<>>

\* An exception raised inside fix_ca_warnings: neither fix_ca_warnings nor
\* main (lines 115-123) has a try, so it leaves both and ends the script.
Raises ==
  /\ pc' = "raised"
  /\ fi' = fi
  /\ ret' = "none"
  /\ failures' = failures + 1

\* main, lines 115-123: os.path.exists(file_path); fix_ca_warnings is called
\* for a file that exists, 'File not found' is printed for one that does not.
MainExists ==
  /\ pc = "loop"
  /\ fi <= Len(files)
  /\ \/ /\ disk[files[fi]].exists
        /\ pf' = [NoCall EXCEPT !.filepath = files[fi]]
        /\ called' = Append(called, files[fi])
        /\ io' = <<>>
        /\ pc' = "read"
        /\ fi' = fi
     \/ /\ ~disk[files[fi]].exists
        /\ fi' = fi + 1
        /\ UNCHANGED <<pf, called, io, pc>>
  /\ ret' = "none"
  /\ UNCHANGED <<disk, run_no, files, fixed_count, files_processed,
                 files_modified, errors, failures, first_text>>
  /\ UNCHANGED vars

\* fix_ca_warnings, lines 12-14: open(file_path, 'r') and read()
CaRead ==
  /\ pc = "read"
  /\ \/ /\ io' = Append(io, [op |-> "read", path |-> pf.filepath])
        /\ pf' = [pf EXCEPT !.original = disk[pf.filepath].text]
        /\ pc' = "fix"
        /\ UNCHANGED <<fi, ret, failures>>
     \/ /\ CanFail
        /\ io' = Append(io, [op |-> "read_failed", path |-> pf.filepath])
        /\ Raises
        /\ UNCHANGED pf
  /\ UNCHANGED <<disk, run_no, files, fixed_count, files_processed,
                 files_modified, errors, called, first_text>>
  /\ UNCHANGED vars

\* fix_ca_warnings, lines 16-98 and 102: the substitutions, and return False
\* when they leave the content as it was.
CaFix ==
  /\ pc = "fix" /\ fixer = "riskmanagement"
  /\ \E c \in {CaFixed(pf.original)} :
       /\ pf' = [pf EXCEPT !.fixed = c]
       /\ pc' = IF c # pf.original THEN "original_open" ELSE "returned"
       /\ ret' = IF c # pf.original THEN ret ELSE "False"
  /\ UNCHANGED <<disk, run_no, files, fi, fixed_count, files_processed,
                 files_modified, errors, io, failures, called, first_text>>
  /\ UNCHANGED vars

\* fix_ca_warnings, line 99: open(file_path, 'w')
CaOpen ==
  /\ pc = "original_open"
  /\ \/ /\ disk' = [disk EXCEPT ![pf.filepath].text = <<>>]
        /\ io' = Append(io, [op |-> "open_w", path |-> pf.filepath])
        /\ pc' = "original_write"
        /\ UNCHANGED <<fi, ret, failures>>
     \/ /\ CanFail
        /\ io' = Append(io, [op |-> "open_failed", path |-> pf.filepath])
        /\ Raises
        /\ UNCHANGED disk
  /\ UNCHANGED <<run_no, files, pf, fixed_count, files_processed,
                 files_modified, errors, called, first_text>>
  /\ UNCHANGED vars

\* fix_ca_warnings, lines 100-101: f.write(content), the close, return True
CaWrite ==
  /\ pc = "original_write"
  /\ \/ /\ disk' = [disk EXCEPT ![pf.filepath].text = pf.fixed]
        /\ io' = Append(io, [op |-> "write", path |-> pf.filepath])
        /\ pc' = "returned"
        /\ ret' = "True"
        /\ UNCHANGED <<fi, failures>>
     \/ /\ CanFail
        /\ \E part \in Partial(pf.fixed) :
             disk' = [disk EXCEPT ![pf.filepath].text = part]
        /\ io' = Append(io, [op |-> "write_failed", path |-> pf.filepath])
        /\ Raises
  /\ UNCHANGED <<run_no, files, pf, fixed_count, files_processed,
                 files_modified, errors, called, first_text>>
  /\ UNCHANGED vars

\* main, lines 118-121: the outcome is printed and the loop goes on.
MainPrint ==
  /\ pc = "returned"
  /\ fi' = fi + 1
  /\ pc' = "loop"
  /\ UNCHANGED <<disk, run_no, files, pf, fixed_count, files_processed,
                 files_modified, errors, ret, io, failures, called,
                 first_text>>
  /\ UNCHANGED vars

\* main: the list is exhausted.
MainEnd ==
  /\ pc = "loop"
  /\ fi > Len(files)
  /\ pc' = "done"
  /\ UNCHANGED <<disk, run_no, files, fi, pf, fixed_count, files_processed,
                 files_modified, errors, ret, io, failures, called,
                 first_text>>
  /\ UNCHANGED vars

RiskNext ==
  \/ MainExists \/ CaRead \/ CaFix \/ CaOpen \/ CaWrite
  \/ MainPrint \/ MainEnd

RiskSpec == RiskInit /\ [][RiskNext]_<<vars, fvars>>

(***************************************************************************)
(* fix_logerror_phase2.py: extract_placeholder_values.  Positions are the  *)
(* indices of the code, counted from 0: line[pos] is the element pos + 1.  *)
(***************************************************************************)
\* Lines 22-26: the locals before the loop.
ExtractInit(start_pos) ==
  [paren_count |-> 1, pos |-> start_pos, method_call |-> <<>>,
   in_string |-> FALSE, escape_next |-> FALSE]

\* Lines 32-43: the if chain of the loop body.
ExtractFlags(st, char) ==
  IF st.escape_next THEN [st EXCEPT !.escape_next = FALSE]
  ELSE IF char = BS THEN [st EXCEPT !.escape_next = TRUE]
  ELSE IF char = DQ /\ ~st.in_string THEN [st EXCEPT !.in_string = TRUE]
  ELSE IF char = DQ /\ st.in_string THEN [st EXCEPT !.in_string = FALSE]
  ELSE IF char = "(" /\ ~st.in_string THEN [st EXCEPT !.paren_count = @ + 1]
  ELSE IF char = ")" /\ ~st.in_string THEN [st EXCEPT !.paren_count = @ - 1]
  ELSE st

\* Lines 29-45: one iteration: the character is appended to method_call,
\* the flags are updated and pos moves on.
ExtractStep(line, st) ==
  [ExtractFlags(st, line[st.pos + 1]) EXCEPT
     !.method_call = Append(st.method_call, line[st.pos + 1]),
     !.pos = st.pos + 1]

\* Line 28: while pos < len(line) and paren_count > 0
RECURSIVE ExtractLoop(_, _)
ExtractLoop(line, st) ==
  IF st.pos < Len(line) /\ st.paren_count > 0
  THEN ExtractLoop(line, ExtractStep(line, st))
  ELSE st

\* The locals when extract_placeholder_values returns method_call, [], pos.
extract_placeholder_values(line, start_pos) ==
  ExtractLoop(line, ExtractInit(start_pos))

\* The text before the opening parenthesis of a call, and what may follow
\* the parenthesis: every text of up to MaxRest of these characters.
MaxRest == 6

ExtractHead  == <<"L", "(">>
ExtractChars == {"(", ")", DQ, BS, "a"}

RECURSIVE TextsOfLen(_, _)
TextsOfLen(chars, n) ==
  IF n = 0 THEN {<<>>}
  ELSE {Append(t, c) : t \in TextsOfLen(chars, n - 1), c \in chars}

ExtractLines ==
  {ExtractHead \o rest :
     rest \in UNION {TextsOfLen(ExtractChars, n) : n \in 0..MaxRest}}

ExtractSpecInit ==
  /\ fixer = "line"
  /\ input \in ExtractLines
  /\ mi = Len(ExtractHead)
  /\ round = 0
  /\ before = <<>>
  /\ content = <<>>
  /\ changes = 0
  /\ patterns_fixed = NoTally
  /\ last = NoPass
  /\ FileIdle

\* extract_placeholder_values(input, mi) is called: content takes the
\* method_call returned and changes the pos returned.
ExtractCall ==
  /\ fixer = "line"
  /\ round = 0
  /\ \E r \in {extract_placeholder_values(input, mi)} :
       /\ content' = r.method_call
       /\ changes' = r.pos
  /\ round' = 1
  /\ UNCHANGED <<fixer, input, before, mi, patterns_fixed, last>>
  /\ UNCHANGED fvars

ExtractNext == ExtractCall

ExtractSpec == ExtractSpecInit /\ [][ExtractNext]_vars

(***************************************************************************)
(* fix_all_logging_phase2.py: the while loop of lines 57-74, one iteration *)
(* at a time.  mi is the index i of the code (counted from 0), last the    *)
(* locals current_param, paren_depth, in_quotes and param_list, round the  *)
(* number of iterations made.                                              *)
(***************************************************************************)
\* The branch of lines 66-71 is taken at the index i (counted from 0).
CommaBranch(ps, st, i) ==
  /\ ~(ps[i + 1] = DQ /\ (i = 0 \/ ps[i] # BS))
  /\ ~(ps[i + 1] \in {"(", ")"} /\ ~st.in_quotes)
  /\ ps[i + 1] = "," /\ st.paren_depth = 0 /\ ~st.in_quotes

\* A faulty variant of SplitIndex: the comma branch goes back to the test of
\* the loop without moving the index.
SplitIndexStaysAtComma(ps, st, i) ==
  IF CommaBranch(ps, st, i) THEN i ELSE i + 1

\* The index after one iteration: i += 1 of line 70, before the continue,
\* and i += 1 of line 74.
SplitIndex(ps, st, i) ==
  IF CommaBranch(ps, st, i) THEN i + 1 ELSE i + 1

\* The texts the loop is given: params.strip().lstrip(',').strip() of every
\* text of up to MaxParamLen of these characters.
MaxParamLen == 5

ParamChars == {",", "(", ")", DQ, BS, " ", "a"}

ParamStrs ==
  {ParamStr(t) :
     t \in UNION {TextsOfLen(ParamChars, n) : n \in 0..MaxParamLen}}

SplitSpecInit ==
  /\ fixer = "comprehensive"
  /\ input \in ParamStrs
  /\ mi = 0
  /\ round = 0
  /\ last = SplitInit
  /\ before = <<>>
  /\ content = <<>>
  /\ changes = 0
  /\ patterns_fixed = NoTally
  /\ disk = <<>> /\ run_no = 0 /\ files = <<>> /\ fi = 0 /\ pc = "scan"
  /\ pf = <<>> /\ fixed_count = 0 /\ files_processed = 0
  /\ files_modified = 0 /\ errors = <<>> /\ ret = "none" /\ io = <<>>
  /\ failures = 0 /\ called = <<>> /\ first_text = <<>>

\* Lines 57-74: the test of the while and one iteration.
SplitIterate ==
  /\ pc = "scan"
  /\ mi < Len(input)
  /\ last' = SplitStep(input, last, mi + 1)
  /\ mi' = SplitIndex(input, last, mi)
  /\ round' = round + 1
  /\ UNCHANGED <<fixer, input, before, content, changes, patterns_fixed>>
  /\ UNCHANGED fvars

\* Lines 57 and 76-77: the test of the while fails and what is left in
\* current_param is added to param_list.
SplitFinish ==
  /\ pc = "scan"
  /\ ~(mi < Len(input))
  /\ last' = [last EXCEPT !.param_list = SplitEnd(last)]
  /\ pc' = "scanned"
  /\ UNCHANGED <<fixer, input, round, before, content, changes, mi,
                 patterns_fixed>>
  /\ UNCHANGED <<disk, run_no, files, fi, pf, fixed_count, files_processed,
                 files_modified, errors, ret, io, failures, called,
                 first_text>>

SplitNext == SplitIterate \/ SplitFinish

SplitSpec == SplitSpecInit /\ [][SplitNext]_<<vars, fvars>>

(***************************************************************************)
(* Notions the claims are stated with.                                     *)
(***************************************************************************)
Finished == mi = Len(logging_methods) + 1

\* The text of the call a record of last.ms is about, as it stood in last.src.
CallSpan(r) == Slice(last.src, r.s, r.e - 1)

\* The call was left as it was and not counted.
CallUnchanged(r) ==
  /\ ~r.counted
  /\ IF fixer = "comprehensive" THEN r.result = CallSpan(r)
     ELSE r.result = last.src

\* The placeholder names in first-seen order, each once.
DistinctNames(phs) ==
  LET firsts == {i \in 1..Len(phs) : \A j \in 1..(i - 1) : phs[j] # phs[i]}
  IN [n \in 1..Cardinality(firsts) |->
        phs[CHOOSE i \in firsts : Cardinality({j \in firsts : j <= i}) = n]]

Braced(x) == <<"{">> \o x \o <<"}">>

\* Positional binding of the specification: every occurrence of the i-th
\* distinct name is replaced by the i-th argument, all names at once.
RECURSIVE SubstAll(_, _, _, _)
SubstAll(body, i, names, args) ==
  LET Hit(p) == \E j \in 1..Len(names) :
                  j <= Len(args) /\ StartsWithAt(body, p, Braced(names[j]))
      p == IF i > Len(body) THEN Len(body) + 1
           ELSE CHOOSE q \in i..(Len(body) + 1) :
                  /\ q = Len(body) + 1 \/ Hit(q)
                  /\ \A h \in i..(q - 1) : ~Hit(h)
  IN IF p > Len(body) THEN Slice(body, i, Len(body))
     ELSE LET j == CHOOSE x \in 1..Len(names) :
                     x <= Len(args) /\ StartsWithAt(body, p, Braced(names[x]))
          IN Slice(body, i, p - 1) \o Braced(args[j])
             \o SubstAll(body, p + Len(names[j]) + 2, names, args)

\* The text the splitter of the running fixer scans for a call.
ParamStrOf(r) ==
  IF fixer = "comprehensive" THEN ParamStr(r.params) ELSE LParamStr(r.params)

\* The state of that splitter's loop after the indices 1..n.
ScanAfter(ps, n) ==
  IF fixer = "comprehensive" THEN SplitRun(ps, SplitInit, 1, n)
  ELSE LSplitRun(ps, SplitInit, 1, n)

\* The indices at which the splitter ends an argument.
SplitPoints(ps) ==
  {i \in 1..Len(ps) :
     /\ ps[i] = ","
     /\ LET st == ScanAfter(ps, i - 1)
        IN st.paren_depth = 0 /\ ~st.in_quotes}

\* The lexical structure of the argument text itself (specification 4.1): a
\* backslash inside a literal escapes the character after it, whatever it is.
LexStep(ps, st, i) ==
  LET char == ps[i] IN
  IF st.escaped THEN [st EXCEPT !.escaped = FALSE]
  ELSE IF st.in_quote /\ char = BS THEN [st EXCEPT !.escaped = TRUE]
  ELSE IF char = DQ THEN [st EXCEPT !.in_quote = ~@]
  ELSE IF char = "(" /\ ~st.in_quote THEN [st EXCEPT !.depth = @ + 1]
  ELSE IF char = ")" /\ ~st.in_quote THEN [st EXCEPT !.depth = @ - 1]
  ELSE st

RECURSIVE LexRun(_, _, _, _)
LexRun(ps, st, a, b) ==
  IF a > b THEN st
  ELSE IF a = b THEN LexStep(ps, st, a)
  ELSE LET mid  == (a + b) \div 2
           left == LexRun(ps, st, a, mid)
       IN IF left.in_quote \in BOOLEAN THEN LexRun(ps, left, mid + 1, b) ELSE left

LexAfter(ps, n) ==
  LexRun(ps, [depth |-> 0, in_quote |-> FALSE, escaped |-> FALSE], 1, n)

\* Unbalanced for the splitter's scan and in the text itself.
Unbalanced(ps) ==
  /\ LET st == ScanAfter(ps, Len(ps)) IN st.in_quotes \/ st.paren_depth # 0
  /\ LET lx == LexAfter(ps, Len(ps)) IN lx.in_quote \/ lx.depth # 0

RECURSIVE SumDelta(_, _)
SumDelta(ms, k) ==
  IF k = 0 THEN 0
  ELSE SumDelta(ms, k - 1) + Len(ms[k].result) - (ms[k].e - ms[k].s)

(***************************************************************************)
(* The claims.                                                             *)
(***************************************************************************)

C2_LineKeepsTextAroundCall ==
  fixer = "line" =>
    \A k \in 1..Len(last.ms) :
      LET r     == last.ms[k]
          src   == last.src
          after == Len(src) - r.e + 1
      IN r.counted =>
           /\ Len(content) >= (r.s - 1) + after
           /\ Slice(content, 1, r.s - 1) = Slice(src, 1, r.s - 1)
           /\ Slice(content, Len(content) - after + 1, Len(content))
                = Slice(src, r.e, Len(src))

\* C3: applying either fixer to its own output reports no change and returns
\* the text as it was.
C3_Idempotent ==
  (round = 2 /\ Finished) => (changes = 0 /\ content = before)

\* C4: a matched call is rewritten only if its template has no more placeholder
\* names than the call has arguments; otherwise it is left as it was and is not
\* counted.
C4_RewrittenOnlyWithEnoughArguments ==
  \A k \in 1..Len(last.ms) :
    LET r == last.ms[k]
        n == Len(DistinctNames(r.placeholders))
    IN /\ r.counted => n <= Len(r.all_params)
       /\ n > Len(r.all_params) => CallUnchanged(r)

\* C5: when arguments are left over after every placeholder has one, other
\* than a single last argument ex, exception or e, the call is left as it was
\* and is not counted.
C5_LeftoverArgumentsLeaveCallUnchanged ==
  \A k \in 1..Len(last.ms) :
    LET r        == last.ms[k]
        leftover == Slice(r.all_params, Len(r.placeholders) + 1, Len(r.all_params))
    IN (/\ r.placeholders # <<>>
        /\ leftover # <<>>
        /\ ~(Len(leftover) = 1 /\ leftover[1] \in ExceptionNames))
       => CallUnchanged(r)

\* C6: a call matched by ComprehensiveLoggingFixer with k distinct placeholder
\* names and m >= k arguments, none of them ex, exception or e, becomes
\* prefix $"T'" suffix, T' being the template with every occurrence of the
\* i-th name replaced by {i-th argument}.
C6_BindsEachNameToItsArgument ==
  fixer = "comprehensive" =>
    \A k \in 1..Len(last.ms) :
      LET r     == last.ms[k]
          names == DistinctNames(r.placeholders)
          body  == Slice(r.template, 2, Len(r.template) - 1)
      IN (/\ Len(names) >= 1
          /\ Len(r.all_params) >= Len(names)
          /\ \A j \in 1..Len(r.all_params) : r.all_params[j] \notin ExceptionNames)
         => /\ r.counted
            /\ r.result = r.prefix \o <<"$", DQ>>
                          \o SubstAll(body, 1, names, r.all_params)
                          \o <<DQ>> \o r.suffix

\* C7: a call matched by ComprehensiveLoggingFixer with k placeholders, k
\* arguments for them and then a last argument ex, exception or e becomes
\* prefix, $, the quoted template with the placeholders replaced by their
\* arguments, a comma and that last argument, then the closing delimiter.
C7_KeepsTrailingExceptionArgument ==
  fixer = "comprehensive" =>
    \A k \in 1..Len(last.ms) :
      LET r     == last.ms[k]
          names == DistinctNames(r.placeholders)
          n     == Len(r.all_params)
          body  == Slice(r.template, 2, Len(r.template) - 1)
      IN (/\ Len(names) = Len(r.placeholders)
          /\ n = Len(names) + 1
          /\ r.all_params[n] \in ExceptionNames)
         => /\ r.counted
            /\ r.result = r.prefix \o <<"$", DQ>>
                          \o SubstAll(body, 1, names, SubSeq(r.all_params, 1, n - 1))
                          \o <<DQ, ",", " ">> \o r.all_params[n] \o r.suffix

\* C8: for LogError("{a}", F(a, b), ex) ComprehensiveLoggingFixer binds the
\* whole nested call and returns LogError($"{F(a, b)}", ex).
C8_NestedCallBoundWhole ==
  (/\ fixer = "comprehensive" /\ round = 1 /\ Finished
   /\ input = CallText(LogError, Tpl_a, <<Arg_call, Arg_ex>>))
  => content = LoggerDot \o LogError \o <<"(", "$", DQ, "{">> \o Arg_call
               \o <<"}", DQ, ",", " ">> \o Arg_ex \o <<")">>

\* C9: a matched call whose argument text is unbalanced (a literal left open,
\* or a parenthesis depth other than 0 when the scan ends) is left as it was
\* and is not counted, by both fixers.
C9_UnbalancedCallUnchanged ==
  \A k \in 1..Len(last.ms) :
    LET r == last.ms[k]
    IN (r.placeholders # <<>> /\ Unbalanced(ParamStrOf(r))) => CallUnchanged(r)

\* C10: the splitters of both fixers end an argument only at a comma that is
\* at parenthesis depth 0 and outside every string literal of the text they
\* scan (the calls with a placeholder: the others are not split).
C10_SplitsOnlyAtTopLevelCommas ==
  \A k \in 1..Len(last.ms) :
    LET ps == ParamStrOf(last.ms[k])
    IN last.ms[k].placeholders # <<>> =>
         \A i \in SplitPoints(ps) :
           LET lx == LexAfter(ps, i - 1)
           IN lx.depth = 0 /\ ~lx.in_quote /\ ~lx.escaped

\* The template text between its quotes, for the record of either fixer.
TemplateBody(r) ==
  IF fixer = "comprehensive" THEN Slice(r.template, 2, Len(r.template) - 1)
  ELSE r.template

\* C11: a matched call whose template holds one placeholder name twice (and
\* no other) and that has a single argument, not ex, exception or e, is
\* rewritten by both fixers, and both occurrences of the name are replaced by
\* that argument.
C11_RepeatedNameTakesOneArgument ==
  \A k \in 1..Len(last.ms) :
    LET r == last.ms[k]
    IN (/\ Len(r.placeholders) = 2
        /\ r.placeholders[1] = r.placeholders[2]
        /\ Len(r.all_params) = 1
        /\ r.all_params[1] \notin ExceptionNames)
       => /\ r.counted
          /\ r.result = r.prefix \o <<"$", DQ>>
                        \o SubstAll(TemplateBody(r), 1,
                                    <<r.placeholders[1]>>, r.all_params)
                        \o <<DQ>> \o r.suffix

\* C12: ComprehensiveLoggingFixer binds per distinct name in first-seen order:
\* for a template with the names x, x, y and two arguments, neither ex,
\* exception nor e, both x become the first argument and y the second.
C12_RepeatedNameConsumesNoArgument ==
  fixer = "comprehensive" =>
    \A k \in 1..Len(last.ms) :
      LET r   == last.ms[k]
          phs == r.placeholders
      IN (/\ Len(phs) = 3 /\ phs[1] = phs[2] /\ phs[3] # phs[1]
          /\ Len(r.all_params) = 2
          /\ \A j \in 1..2 : r.all_params[j] \notin ExceptionNames)
         => /\ r.counted
            /\ r.result = r.prefix \o <<"$", DQ>>
                          \o SubstAll(TemplateBody(r), 1,
                                      <<phs[1], phs[3]>>, r.all_params)
                          \o <<DQ>> \o r.suffix

\* C13: a call matched by ComprehensiveLoggingFixer with k distinct
\* placeholders and exactly k arguments, the last of them ex, exception or e,
\* has that argument bound to the k-th placeholder, and nothing follows the
\* template.
C13_LastArgumentBoundWhenNeeded ==
  fixer = "comprehensive" =>
    \A k \in 1..Len(last.ms) :
      LET r     == last.ms[k]
          names == DistinctNames(r.placeholders)
          n     == Len(r.all_params)
      IN (/\ n >= 1
          /\ Len(r.placeholders) = n /\ Len(names) = n
          /\ r.all_params[n] \in ExceptionNames)
         => /\ r.counted
            /\ r.result = r.prefix \o <<"$", DQ>>
                          \o SubstAll(TemplateBody(r), 1, names, r.all_params)
                          \o <<DQ>> \o r.suffix

\* What lies in last.src between the opening parenthesis of a matched call
\* and the closing parenthesis the match ends with.
CallInside(r) ==
  Slice(last.src, r.s + Len(r.prefix), r.e - Len(r.suffix) - 1)

\* C14: the text either fixer replaces ends at the closing parenthesis that
\* matches the call's opening one: what lies between them is balanced (depth
\* 0, no literal open) and no parenthesis in it closes below depth 0.
C14_EndsAtMatchingParenthesis ==
  \A k \in 1..Len(last.ms) :
    LET r      == last.ms[k]
        inside == CallInside(r)
    IN r.counted =>
         /\ LET lx == LexAfter(inside, Len(inside))
            IN lx.depth = 0 /\ ~lx.in_quote /\ ~lx.escaped
         /\ \A i \in 1..Len(inside) : LexAfter(inside, i).depth >= 0

(***************************************************************************)
(* Claims about process_file and run (specification FileSpec).             *)
(***************************************************************************)
\* process_file is past its fix for the file it was called with.
PastFix ==
  pc \in {"backup_open", "backup_write", "original_open", "original_write",
          "returned"}
  /\ io # <<>> /\ io[1].op = "read"

\* The file operations of the call that open a file for writing or write.
WriteOps == {k \in 1..Len(io) : io[k].op # "read"}

\* C15: when the fix of a file reports zero changes, process_file (of each of
\* the three fixers) opens no file for writing, writes nothing and returns
\* False.
C15_NoWriteWithoutChanges ==
  (PastFix /\ pf.changes = 0) =>
    /\ pc = "returned"
    /\ ret = "False"
    /\ WriteOps = {}

C15_Witness ==
  /\ PastFix /\ pf.changes = 0
  /\ disk[pf.filepath].text = Text_none
  /\ ret = "False"

\* The positions in the log of the call where the original is opened for
\* writing, or the attempt to is made.
OriginalOpens ==
  {k \in 1..Len(io) : io[k].path = pf.filepath
                      /\ io[k].op \in {"open_w", "open_failed"}}

\* C16: in process_file of each of the three fixers the original is opened
\* for writing only after the write of the backup has completed without a
\* failure, the backup file then holding all of what was written to it.
C16_BackupWrittenBeforeOriginalOpened ==
  \A k \in OriginalOpens :
    /\ \E j \in 1..(k - 1) :
         io[j] = [op |-> "write", path |-> BackupPath(pf.filepath)]
    /\ disk[BackupPath(pf.filepath)] = [exists |-> TRUE, text |-> pf.backup]

C16_Witness ==
  /\ pc = "original_write"
  /\ \E k \in OriginalOpens : io[k].op = "open_w"
  /\ disk[pf.filepath].text = <<>>

\* The open or the write of the backup has failed in the call.
BackupFailed ==
  \E k \in 1..Len(io) : /\ io[k].path = BackupPath(pf.filepath)
                        /\ io[k].op \in {"open_failed", "write_failed"}

\* C17: when writing the backup fails in
\* ComprehensiveLoggingFixer.process_file, the original is not opened for
\* writing and its content is what was read, the failure is caught and
\* recorded in self.errors, and the call returns False.
C17_BackupFailureLeavesOriginal ==
  (fixer = "comprehensive" /\ BackupFailed) =>
    /\ pc \in {"returned", "loop", "done"}
    /\ ret = "False"
    /\ OriginalOpens = {}
    /\ disk[pf.filepath] = [exists |-> TRUE, text |-> pf.original]
    /\ errors # <<>> /\ errors[Len(errors)] = pf.filepath

C17_Witness ==
  /\ fixer = "comprehensive" /\ BackupFailed
  /\ pc = "returned"
  /\ disk[BackupPath(pf.filepath)].text # <<>>
  /\ disk[BackupPath(pf.filepath)].text # pf.backup

\* The write of the new content to the original has failed in the call.
OriginalWriteFailed ==
  \E k \in 1..Len(io) : io[k] = [op |-> "write_failed", path |-> pf.filepath]

\* C18: when the write of the new content to the original fails part-way in
\* ComprehensiveLoggingFixer.process_file, the original holds exactly the
\* content it had before the call.
C18_OriginalIntactAfterFailedWrite ==
  (fixer = "comprehensive" /\ OriginalWriteFailed) =>
    disk[pf.filepath] = [exists |-> TRUE, text |-> pf.original]

\* process_file is under way, or has just returned to the loop of run.
InCall ==
  pc \in {"read", "fix", "backup_open", "backup_write", "original_open",
          "original_write", "returned"}

\* A file operation of the call has failed.
CallFailed ==
  \E k \in 1..Len(io) :
    io[k].op \in {"read_failed", "open_failed", "write_failed"}

\* C19: in ComprehensiveLoggingFixer.run a failed file operation of
\* process_file ends the call with False and the file as the last entry of
\* errors; process_file is called with the files of the list one by one in
\* the order of the list, files_processed counting the calls that have
\* returned, and when run ends every file of the list has been processed
\* once and files_processed is the length of the list.
C19_RunProcessesEveryFileOnce ==
  fixer = "comprehensive" =>
    /\ InCall =>
         /\ fi \in 1..Len(files)
         /\ pf.filepath = files[fi]
         /\ called = SubSeq(files, 1, fi)
         /\ files_processed = fi - 1
         /\ CallFailed => /\ pc = "returned" /\ ret = "False"
                          /\ errors # <<>> /\ errors[Len(errors)] = files[fi]
    /\ pc = "loop" =>
         /\ fi \in 1..(Len(files) + 1)
         /\ called = SubSeq(files, 1, fi - 1)
         /\ files_processed = fi - 1
    /\ pc = "done" =>
         /\ called = files
         /\ files_processed = Len(files)

\* A failure on the first of two files, and the run has ended.
C19_Witness ==
  /\ fixer = "comprehensive" /\ pc = "done"
  /\ Len(files) = 2 /\ errors = <<files[1]>>
  /\ called = files /\ files_processed = 2
  /\ files_modified = 1

\* C20: after any sequence of runs of ComprehensiveLoggingFixer or
\* LogErrorFixer, for every file that has been rewritten a backup of it
\* exists that holds the content the file had before its first rewrite.
C20_FirstBackupSurvives ==
  fixer \in {"comprehensive", "systematic"} =>
    \A f \in FileSet :
      first_text[f].seen =>
        \E b \in BackupsOf(f) :
          disk[b] = [exists |-> TRUE, text |-> first_text[f].text]

\* C21: what ComprehensiveLoggingFixer.fix_logging_call returns for a buffer
\* in process_file (content and changes) is what it returns for that buffer
\* on a fixer fresh from __init__, whatever files the fixer has processed
\* before and whatever its counters, tallies and errors hold.
C21_FixLoggingCallIsPure ==
  (fixer = "comprehensive" /\ PastFix) =>
    /\ pf.fixed = CFixLoggingCall(pf.original).content
    /\ pf.changes = CFixLoggingCall(pf.original).changes

\* The second file of a run is fixed after the first has been rewritten.
C21_Witness ==
  /\ fixer = "comprehensive" /\ PastFix
  /\ fi = 2 /\ pf.changes = 1
  /\ fixed_count > 0 /\ files_modified = 1 /\ patterns_fixed[1] >= 2

\* The start of a call that is no candidate, up to the end of its first
\* argument: a literal with no placeholder, an interpolated literal, a name.
NonCandidateHeads ==
  {LoggerDot \o LogError \o <<"(">> \o tpl : tpl \in {Tpl_none, Tpl_done, Tpl_var}}

\* C22: a call whose first argument is no string literal, or a literal with
\* no placeholder, is not modified and not counted by either phase-2 fixer,
\* and no error is recorded: its text up to the end of the first argument
\* stays where it was, what is counted is a call nested in its arguments,
\* and with no such call the text is returned as it was with zero changes.
C22_NonCandidateUntouched ==
  \A h \in NonCandidateHeads :
    StartsWithAt(input, 1, h) =>
      /\ StartsWithAt(content, 1, h)
      /\ \A k \in 1..Len(last.ms) : last.ms[k].counted => last.ms[k].s > Len(h)
      /\ FindAt(input, 2, LoggerDot) > Len(input) =>
           (content = input /\ changes = 0)
      /\ errors = <<>>

(***************************************************************************)
(* Claims about LogErrorFixer.fix_logerror_patterns (specification         *)
(* SysSpec).                                                               *)
(***************************************************************************)
\* LogError($"m {v}", ex) and LogError($"m {v1} {v2}", ex)
SysFixed1(v) ==
  LoggerDot \o LogError \o <<"(", "$", DQ, "m", " ", "{">> \o v
  \o <<"}", DQ, ",", " ", "e", "x", ")">>

SysFixed2(v1, v2) ==
  LoggerDot \o LogError \o <<"(", "$", DQ, "m", " ", "{">> \o v1
  \o <<"}", " ", "{">> \o v2 \o <<"}", DQ, ",", " ", "e", "x", ")">>

\* C23: for a line holding LogError("m {a}", v, ex), or the form with two
\* placeholders and two values, fix_logerror_patterns returns the line with
\* that call replaced by LogError($"m {v}", ex): the text before the call,
\* the closing parenthesis and what follows it on the line are kept.
C23_PatternKeepsTextAroundCall ==
  \A lead \in SysLeads, trail \in SysTrails :
    /\ \A v \in SysValues :
         (round = 1 /\ before = lead \o SysCall1(v) \o trail)
           => (content = lead \o SysFixed1(v) \o trail /\ changes = 1)
    /\ \A v1 \in SysValues, v2 \in {Arg_a, Arg_b} :
         (round = 1 /\ before = lead \o SysCall2(v1, v2) \o trail)
           => (content = lead \o SysFixed2(v1, v2) \o trail /\ changes = 1)

\* The lines of the file the call was made for that fix_line left alone.
LinesLeftAlone ==
  {k \in 1..Len(ReadLines(pf.original)) :
     fix_line(RStripNewline(ReadLines(pf.original)[k])).changes = 0}

\* C24: after LoggingParameterFixer.process_file has returned True the
\* backup file holds exactly the content the original had before the call,
\* and every line of the rewritten file in which no call was rewritten is
\* the line of the original.
C24_BackupHoldsOriginalContent ==
  (fixer = "line" /\ pc = "returned" /\ ret = "True") =>
    /\ disk[BackupPath(pf.filepath)] = [exists |-> TRUE, text |-> pf.original]
    /\ \A k \in LinesLeftAlone :
         /\ k <= Len(ReadLines(disk[pf.filepath].text))
         /\ ReadLines(disk[pf.filepath].text)[k] = ReadLines(pf.original)[k]

\* C25: fix_logerror_patterns applied to its own output reports zero
\* changes and returns the text as it was.
C25_SysIdempotent ==
  (fixer = "systematic" /\ round = 2) => (changes = 0 /\ content = before)

\* C26: in both phase-2 fixers a call of process_file that ends in the error
\* branch leaves fixed_count, files_modified and the per-method tallies as
\* they were when the call was made.
C26_FailedCallLeavesCounters ==
  (fixer \in {"comprehensive", "line"} /\ pc = "returned" /\ CallFailed) =>
    /\ fixed_count = pf.entry.fixed_count
    /\ files_modified = pf.entry.files_modified
    /\ patterns_fixed = pf.entry.tally

\* The text x occurs in s.
Occurs(x, s) == FindAt(s, 1, x) <= Len(s)

\* C27: in every call rewritten by either phase-2 fixer each argument the
\* split produced appears in the rewritten call, in braces in the template
\* or after a comma as a trailing argument.
C27_NoArgumentDiscarded ==
  \A k \in 1..Len(last.ms) :
    last.ms[k].counted =>
      \A j \in 1..Len(last.ms[k].all_params) :
        \/ Occurs(Braced(last.ms[k].all_params[j]), last.ms[k].result)
        \/ Occurs(<<",", " ">> \o last.ms[k].all_params[j], last.ms[k].result)

\* main of fix_riskmanagement_warnings has ended, with the list exhausted or
\* with an exception.
MainOver == fixer = "riskmanagement" /\ pc \in {"done", "raised"}

\* C28: in fix_riskmanagement_warnings.main a failure while reading or
\* writing one of the listed files does not abort the batch: when main is
\* over, fix_ca_warnings has been called with every listed file that exists.
C28_FailureDoesNotAbortBatch ==
  MainOver =>
    \A k \in 1..Len(files_to_fix) :
      disk[files_to_fix[k]].exists =>
        \E j \in 1..Len(called) : called[j] = files_to_fix[k]

\* The character at index i of the line (counted from 1) is escaped in the
\* scan that starts after index a: an odd number of backslashes stands right
\* before it.
EscapedAt(line, a, i) ==
  \E k \in (a + 1)..(i - 1) :
    /\ \A j \in k..(i - 1) : line[j] = BS
    /\ k = a + 1 \/ line[k - 1] # BS
    /\ (i - k) % 2 = 1

\* The index i lies inside a quoted string literal: an odd number of quote
\* characters that are not escaped stands before it.
InStringAt(line, a, i) ==
  Cardinality({j \in (a + 1)..(i - 1) :
                 line[j] = DQ /\ ~EscapedAt(line, a, j)}) % 2 = 1

\* The depth after the character at index i: 1 for the parenthesis the scan
\* starts after, and the parentheses outside string literals since.
DepthAfter(line, a, i) ==
  1 + Cardinality({j \in (a + 1)..i :
                     line[j] = "(" /\ ~InStringAt(line, a, j)})
    - Cardinality({j \in (a + 1)..i :
                     line[j] = ")" /\ ~InStringAt(line, a, j)})

\* The index of the closing parenthesis that matches the opening one at
\* index a, or 0 when there is none.
MatchingClose(line, a) ==
  IF \E i \in (a + 1)..Len(line) : DepthAfter(line, a, i) = 0
  THEN CHOOSE i \in (a + 1)..Len(line) :
         /\ DepthAfter(line, a, i) = 0
         /\ \A j \in (a + 1)..(i - 1) : DepthAfter(line, a, j) # 0
  ELSE 0

\* extract_placeholder_values has returned.
Extracted == fixer = "line" /\ pc = "off" /\ round = 1

\* C29: extract_placeholder_values, started just after a call's opening
\* parenthesis, returns the position right after the closing parenthesis
\* that matches it, parentheses inside string literals and escaped quote
\* characters left aside; with no matching parenthesis it returns
\* pos = len(line); and method_call is line[start_pos:pos].
C29_ReturnsPositionAfterMatchingParenthesis ==
  Extracted =>
    /\ changes = IF MatchingClose(input, mi) # 0
                 THEN MatchingClose(input, mi) ELSE Len(input)
    /\ content = Slice(input, mi + 1, changes)

\* The quote at index j (counted from 1) switches the loop's in_quotes.
QuoteAt(ps, j) == ps[j] = DQ /\ (j = 1 \/ ps[j - 1] # BS)

\* The character at index i stands inside quotes, and the depth of the
\* parentheses before it, as the loop counts them.
InQuotesBefore(ps, i) ==
  Cardinality({j \in 1..(i - 1) : QuoteAt(ps, j)}) % 2 = 1

DepthBefore(ps, i) ==
  Cardinality({j \in 1..(i - 1) : ps[j] = "(" /\ ~InQuotesBefore(ps, j)})
  - Cardinality({j \in 1..(i - 1) : ps[j] = ")" /\ ~InQuotesBefore(ps, j)})

\* The character at index i is a top-level separating comma.
SepComma(ps, i) ==
  ps[i] = "," /\ DepthBefore(ps, i) = 0 /\ ~InQuotesBefore(ps, i)

\* The last separating comma among the first n characters (0: none).
LastSep(ps, n) ==
  IF \E i \in 1..n : SepComma(ps, i)
  THEN CHOOSE i \in 1..n :
         SepComma(ps, i) /\ \A j \in (i + 1)..n : ~SepComma(ps, j)
  ELSE 0

\* The first separating comma from index a on (Len(ps) + 1: none).
NextSep(ps, a) ==
  IF \E i \in a..Len(ps) : SepComma(ps, i)
  THEN CHOOSE i \in a..Len(ps) :
         SepComma(ps, i) /\ \A j \in a..(i - 1) : ~SepComma(ps, j)
  ELSE Len(ps) + 1

\* The arguments of ps from index a on: the texts between the separating
\* commas, stripped, those left empty dropped.
RECURSIVE ArgumentsFrom(_, _)
ArgumentsFrom(ps, a) ==
  IF a > Len(ps) THEN <<>>
  ELSE (IF Strip(Slice(ps, a, NextSep(ps, a) - 1)) = <<>> THEN <<>>
        ELSE <<Strip(Slice(ps, a, NextSep(ps, a) - 1))>>)
       \o ArgumentsFrom(ps, NextSep(ps, a) + 1)

\* The loop of lines 57-74 is under way or over.
InScan == fixer = "comprehensive" /\ pc \in {"scan", "scanned"}

\* C30: the parameter-splitting scan of ComprehensiveLoggingFixer ends for
\* every input: the index has moved by one for every iteration made, it
\* never passes len(param_str), the loop is over after len(param_str)
\* iterations, and every character that is no top-level separating comma
\* has been appended to one argument: current_param holds the characters
\* since the last such comma, and at the end param_list holds the texts
\* between these commas.
C30_SplitScanTerminates ==
  InScan =>
    /\ mi = round
    /\ mi <= Len(input)
    /\ last.current_param = Slice(input, LastSep(input, mi) + 1, mi)
    /\ pc = "scanned" =>
         /\ round = Len(input)
         /\ last.param_list = ArgumentsFrom(input, 1)

\* The loop is over on a text with a separating comma between two arguments
\* and a comma that separates nothing.
C30_Witness ==
  /\ InScan /\ pc = "scanned"
  /\ Len(last.param_list) = 2
  /\ \E i \in 1..Len(input) : SepComma(input, i)
  /\ \E i \in 1..Len(input) : input[i] = "," /\ ~SepComma(input, i)

====
